---- MODULE Spec2Model ----
(***************************************************************************)
(* Symbolic automatic differentiation of MIR expressions                   *)
(* (frontend/src/derivatives/expression_derivatives.rs).                   *)
(*                                                                         *)
(* The MIR keeps two append-only arenas (real and integer expressions).    *)
(* AutoDiff::partial_derivative walks an expression and appends the nodes  *)
(* of its derivative.  A Derivative is Option<RealExpressionId>; ids are   *)
(* the 1-based positions in the arenas and None is written 0.              *)
(***************************************************************************)
EXTENDS Integers, Sequences, FiniteSets, TLC

(***************************************************************************)
(* Bounds of the exploration                                               *)
(***************************************************************************)
MaxCalls == 2
\* largest degree of the polynomials whose coefficients are computed
MaxDegree == 4

(***************************************************************************)
(* Program constants                                                       *)
(***************************************************************************)
DUMMY_SP == 0
U8_MAX == 255

None == 0

(***************************************************************************)
(* Nodes.  Every node of either arena is a record of one shape:            *)
(*   k    variant            op   operator / function / discipline access  *)
(*   a,b  operands           c    condition of a Condition                 *)
(*   v    literal value or referenced id (variable, parameter, branch,     *)
(*        port, net, string)                                               *)
(*   ord  time derivative order of a branch access                         *)
(*   sym  name of a literal that is not an integer (LN_2, LOG10_E)         *)
(*   sp   span of the node   osp  span stored with the operator            *)
(***************************************************************************)
E0 == [k |-> "", op |-> "", a |-> 0, b |-> 0, c |-> 0, v |-> 0, ord |-> 0,
       sym |-> "", sp |-> 0, osp |-> 0]

Literal(val) == [E0 EXCEPT !.k = "Literal", !.v = val]
LiteralSym(name) == [E0 EXCEPT !.k = "Literal", !.sym = name]
Negate(span, arg) == [E0 EXCEPT !.k = "Negate", !.a = arg, !.osp = span]
BinaryOperator(lhs, op, span, rhs) ==
    [E0 EXCEPT !.k = "BinaryOperator", !.op = op, !.a = lhs, !.b = rhs, !.osp = span]
BuiltInFunctionCall1p(call, arg) ==
    [E0 EXCEPT !.k = "BuiltInFunctionCall1p", !.op = call, !.a = arg]
BuiltInFunctionCall2p(call, arg1, arg2) ==
    [E0 EXCEPT !.k = "BuiltInFunctionCall2p", !.op = call, !.a = arg1, !.b = arg2]
Condition(cond, t, e) == [E0 EXCEPT !.k = "Condition", !.c = cond, !.a = t, !.b = e]
VariableReference(var) == [E0 EXCEPT !.k = "VariableReference", !.v = var]
ParameterReference(param) == [E0 EXCEPT !.k = "ParameterReference", !.v = param]
BranchAccess(access, branch, order) ==
    [E0 EXCEPT !.k = "BranchAccess", !.op = access, !.v = branch, !.ord = order]
IntegerConversion(expr) == [E0 EXCEPT !.k = "IntegerConversion", !.a = expr]
Noise(src) == [E0 EXCEPT !.k = "Noise", !.a = src]
Temperature == [E0 EXCEPT !.k = "Temperature"]
SimParam(name, default) == [E0 EXCEPT !.k = "SimParam", !.v = name, !.a = default]

UnaryOperator(op, span, arg) ==
    [E0 EXCEPT !.k = "UnaryOperator", !.op = op, !.a = arg, !.osp = span]
IntegerComparison(lhs, op, span, rhs) ==
    [E0 EXCEPT !.k = "IntegerComparison", !.op = op, !.a = lhs, !.b = rhs, !.osp = span]
RealComparison(lhs, op, span, rhs) ==
    [E0 EXCEPT !.k = "RealComparison", !.op = op, !.a = lhs, !.b = rhs, !.osp = span]
StringEq(lhs, rhs) == [E0 EXCEPT !.k = "StringEq", !.a = lhs, !.b = rhs]
StringNEq(lhs, rhs) == [E0 EXCEPT !.k = "StringNEq", !.a = lhs, !.b = rhs]
IntMin(arg1, arg2) == [E0 EXCEPT !.k = "Min", !.a = arg1, !.b = arg2]
IntMax(arg1, arg2) == [E0 EXCEPT !.k = "Max", !.a = arg1, !.b = arg2]
IntAbs(arg) == [E0 EXCEPT !.k = "Abs", !.a = arg]
RealCast(expr) == [E0 EXCEPT !.k = "RealCast", !.a = expr]
PortConnected(port) == [E0 EXCEPT !.k = "PortConnected", !.v = port]
ParamGiven(param) == [E0 EXCEPT !.k = "ParamGiven", !.v = param]
PortReference(port) == [E0 EXCEPT !.k = "PortReference", !.v = port]
NetReference(net) == [E0 EXCEPT !.k = "NetReference", !.v = net]

\* Node::new(contents, span)
NodeNew(expr, span) == [expr EXCEPT !.sp = span]

\* ExpressionId: a tagged reference into one of the arenas
RealId(id) == [t |-> "Real", id |-> id]
IntegerId(id) == [t |-> "Integer", id |-> id]
StringId(id) == [t |-> "String", id |-> id]

\* Unknown
UParameter(p) == [t |-> "Parameter", id |-> p]
UNodePotential(n) == [t |-> "NodePotential", id |-> n]
UFlow(b) == [t |-> "Flow", id |-> b]
UTemperature == [t |-> "Temperature", id |-> 0]
UTime == [t |-> "Time", id |-> 0]

\* Branch
BranchNets(upper, lower) == [t |-> "Nets", u |-> upper, l |-> lower]
BranchPort(port) == [t |-> "Port", u |-> port, l |-> 0]

(***************************************************************************)
(* The state threaded through a differentiation: the MIR (re, ie, vars,    *)
(* dv, br), the sink (errors, lints), the fields of ExpressionAutoDiff     *)
(* (cur, unknown), whether the call has panicked (abort), whether the      *)
(* build traps integer overflow (checks), and the order of the pushes      *)
(* (log).                                                                  *)
(***************************************************************************)

\* ExpressionId::span(mir)
SpanOf(st, e) ==
    IF e.t = "Real" THEN st.re[e.id].sp
    ELSE IF e.t = "Integer" THEN st.ie[e.id].sp
    ELSE st.se[e.id].sp

CurrentSpan(st) == SpanOf(st, st.cur)

\* mir.real_expressions.push(node)
PushReal(st, node) ==
    IF st.abort # "" THEN [st |-> st, id |-> None]
    ELSE [st |-> [st EXCEPT !.re = Append(st.re, node),
                            !.log = Append(st.log,
                                [t |-> "Real", id |-> Len(st.re) + 1, cur |-> st.cur])],
          id |-> Len(st.re) + 1]

\* mir.integer_expressions.push(node)
PushInteger(st, node) ==
    IF st.abort # "" THEN [st |-> st, id |-> None]
    ELSE [st |-> [st EXCEPT !.ie = Append(st.ie, node),
                            !.log = Append(st.log,
                                [t |-> "Integer", id |-> Len(st.ie) + 1, cur |-> st.cur])],
          id |-> Len(st.ie) + 1]

AddToMirNextId(st, expr) ==
    LET r == PushReal(st, NodeNew(expr, CurrentSpan(st)))
    IN [st |-> r.st, id |-> r.id + 1]
AddToMirDummySpan(st, expr) == PushReal(st, NodeNew(expr, DUMMY_SP))
AddToMir(st, expr) == PushReal(st, NodeNew(expr, CurrentSpan(st)))

GenConstant(st, val) == AddToMir(st, Literal(val))

GenSymConstant(st, name) == AddToMir(st, LiteralSym(name))

GenIntConstant(st, val) == PushInteger(st, NodeNew(Literal(val), CurrentSpan(st)))

GenNeg(st, expr) == AddToMir(st, Negate(CurrentSpan(st), expr))

GenBinaryOp(st, lhs, op, rhs) == AddToMir(st, BinaryOperator(lhs, op, CurrentSpan(st), rhs))

GenMathFunction(st, call, arg) == AddToMir(st, BuiltInFunctionCall1p(call, arg))

GenOnePlusMinusSquared(st, minus, arg) ==
    LET one == GenConstant(st, 1)
        sqare == GenBinaryOp(one.st, arg, "Multiply", arg)
        op == IF minus THEN "Subtract" ELSE "Sum"
    IN GenBinaryOp(sqare.st, one.id, op, sqare.id)

\* Option<(RealExpressionId, RealExpressionId)>: ok = FALSE is None
ConvertToPairedZeroLast(st, arg1, arg2) ==
    IF arg1 # None /\ arg2 # None THEN [st |-> st, ok |-> TRUE, a |-> arg1, b |-> arg2]
    ELSE IF arg1 # None THEN
        LET z == GenConstant(st, 0) IN [st |-> z.st, ok |-> TRUE, a |-> arg1, b |-> z.id]
    ELSE IF arg2 # None THEN
        LET z == GenConstant(st, 0) IN [st |-> z.st, ok |-> TRUE, a |-> arg2, b |-> z.id]
    ELSE [st |-> st, ok |-> FALSE, a |-> None, b |-> None]
ConvertToPaired(st, arg1, arg2) ==
    IF arg1 # None /\ arg2 # None THEN [st |-> st, ok |-> TRUE, a |-> arg1, b |-> arg2]
    ELSE IF arg1 # None THEN
        LET z == GenConstant(st, 0) IN [st |-> z.st, ok |-> TRUE, a |-> arg1, b |-> z.id]
    ELSE IF arg2 # None THEN
        LET z == GenConstant(st, 0) IN [st |-> z.st, ok |-> TRUE, a |-> z.id, b |-> arg2]
    ELSE [st |-> st, ok |-> FALSE, a |-> None, b |-> None]

DerivativeSumKeepsZero(st, dlhs, drhs) ==
    IF dlhs = None /\ drhs = None THEN [st |-> st, id |-> None]
    ELSE LET p == ConvertToPaired(st, dlhs, drhs)
         IN GenBinaryOp(p.st, p.a, "Sum", p.b)
DerivativeSum(st, dlhs, drhs) ==
    IF dlhs # None /\ drhs # None THEN GenBinaryOp(st, dlhs, "Sum", drhs)
    ELSE IF dlhs # None THEN [st |-> st, id |-> dlhs]
    ELSE IF drhs # None THEN [st |-> st, id |-> drhs]
    ELSE [st |-> st, id |-> None]

MulDerivativeDense(st, lhs, dlhs, rhs, drhs) ==
    LET p == ConvertToPaired(st, dlhs, drhs)
    IN IF ~p.ok THEN [st |-> p.st, id |-> None]
       ELSE LET factor1 == GenBinaryOp(p.st, p.a, "Multiply", rhs)
                factor2 == GenBinaryOp(factor1.st, lhs, "Multiply", p.b)
            IN GenBinaryOp(factor2.st, factor1.id, "Sum", factor2.id)
MulDerivative(st, lhs, dlhs, rhs, drhs) ==
    LET factor1 == IF dlhs # None THEN GenBinaryOp(st, dlhs, "Multiply", rhs)
                   ELSE [st |-> st, id |-> None]
        factor2 == IF drhs # None THEN GenBinaryOp(factor1.st, lhs, "Multiply", drhs)
                   ELSE [st |-> factor1.st, id |-> None]
    IN DerivativeSum(factor2.st, factor1.id, factor2.id)

QuotientDerivativeDenFirst(st, lhs, dlhs, rhs, drhs) ==
    LET ndrhs == IF drhs # None THEN GenNeg(st, drhs) ELSE [st |-> st, id |-> None]
        den == GenBinaryOp(ndrhs.st, rhs, "Multiply", rhs)
        num == MulDerivative(den.st, lhs, dlhs, rhs, ndrhs.id)
    IN IF num.id = None THEN num
       ELSE GenBinaryOp(num.st, num.id, "Divide", den.id)
QuotientDerivative(st, lhs, dlhs, rhs, drhs) ==
    LET ndrhs == IF drhs # None THEN GenNeg(st, drhs) ELSE [st |-> st, id |-> None]
        num == MulDerivative(ndrhs.st, lhs, dlhs, rhs, ndrhs.id)
    IN IF num.id = None THEN num
       ELSE LET den == GenBinaryOp(num.st, rhs, "Multiply", rhs)
            IN GenBinaryOp(den.st, num.id, "Divide", den.id)

PowDerivativeEagerLn(st, lhs, dlhs, rhs, drhs, original) ==
    LET sum1 == IF dlhs # None
                THEN LET quotient == GenBinaryOp(st, rhs, "Divide", lhs)
                     IN GenBinaryOp(quotient.st, quotient.id, "Multiply", dlhs)
                ELSE [st |-> st, id |-> None]
        ln == GenMathFunction(sum1.st, "Ln", lhs)
        sum2 == IF drhs # None
                THEN GenBinaryOp(ln.st, ln.id, "Multiply", drhs)
                ELSE [st |-> ln.st, id |-> None]
        sum == DerivativeSum(sum2.st, sum1.id, sum2.id)
    IN IF sum.id = None THEN sum
       ELSE GenBinaryOp(sum.st, sum.id, "Multiply", original)
PowDerivative(st, lhs, dlhs, rhs, drhs, original) ==
    LET sum1 == IF dlhs # None
                THEN LET quotient == GenBinaryOp(st, rhs, "Divide", lhs)
                     IN GenBinaryOp(quotient.st, quotient.id, "Multiply", dlhs)
                ELSE [st |-> st, id |-> None]
        sum2 == IF drhs # None
                THEN LET ln == GenMathFunction(sum1.st, "Ln", lhs)
                     IN GenBinaryOp(ln.st, ln.id, "Multiply", drhs)
                ELSE [st |-> sum1.st, id |-> None]
        sum == DerivativeSum(sum2.st, sum1.id, sum2.id)
    IN IF sum.id = None THEN sum
       ELSE GenBinaryOp(sum.st, sum.id, "Multiply", original)

\* self.ad.errors.add(DerivativeNotDefined(undefined, span))
UndefinedDerivativeUnspanned(st, undefined) ==
    IF st.abort # "" THEN st
    ELSE [st EXCEPT !.errors = Append(st.errors,
            [err |-> "DerivativeNotDefined", reason |-> undefined, sp |-> DUMMY_SP])]
UndefinedDerivative(st, undefined) ==
    IF st.abort # "" THEN st
    ELSE [st EXCEPT !.errors = Append(st.errors,
            [err |-> "DerivativeNotDefined", reason |-> undefined, sp |-> CurrentSpan(st)])]

ParamDerivativeAny(st, param) == GenConstant(st, 1)
ParamDerivativeMemo(st, param) ==
    IF UParameter(param) # st.unknown THEN [st |-> st, id |-> None]
    ELSE IF \E i \in 1..Len(st.re) : st.re[i].k = "Literal" /\ st.re[i].v = 1
    THEN [st |-> st,
          id |-> CHOOSE i \in 1..Len(st.re) : st.re[i].k = "Literal" /\ st.re[i].v = 1]
    ELSE GenConstant(st, 1)
ParamDerivative(st, param) ==
    IF UParameter(param) = st.unknown THEN GenConstant(st, 1)
    ELSE [st |-> st, id |-> None]

\* Mir::derivative_var: the derivative variable of (var, unknown), allocated
\* on the first request and interned in mir.derivatives
DerivativeVar(st, var, unknown) ==
    IF st.abort # "" THEN [st |-> st, id |-> 0]
    ELSE IF \E i \in 1..Len(st.dv) : st.dv[i].var = var /\ st.dv[i].by = unknown
    THEN [st |-> st,
          id |-> st.dv[CHOOSE i \in 1..Len(st.dv) :
                         st.dv[i].var = var /\ st.dv[i].by = unknown].dvar]
    ELSE [st |-> [st EXCEPT
                    !.vars = Append(st.vars, [type |-> "Real", base |-> var]),
                    !.dv = Append(st.dv,
                        [var |-> var, by |-> unknown, dvar |-> Len(st.vars) + 1])],
          id |-> Len(st.vars) + 1]

\* dispatch_late(Box::new(RoundingDerivativeNotFullyDefined {span}), expr)
DispatchLate(st, span, expr) ==
    IF st.abort # "" THEN st
    ELSE [st EXCEPT !.lints = Append(st.lints,
            [lint |-> "RoundingDerivativeNotFullyDefined", sp |-> span, expr |-> expr])]

\* a panic: nothing the call would have done afterwards happens
Panic(st, why) == IF st.abort # "" THEN st ELSE [st EXCEPT !.abort = why]


\* self.current_expr = old, when the traversal below returned with res
RestoreNothing(res, old) == res
Restore(res, old) ==
    IF res.st.abort # "" THEN res ELSE [st |-> [res.st EXCEPT !.cur = old], id |-> res.id]

RECURSIVE VisitRealExpr(_, _), VisitIntegerExpr(_, _)

(***************************************************************************)
(* impl RealExprVisitor for ExpressionAutoDiff<RealExpressionId>           *)
(***************************************************************************)
RealGenLtCondition(st, arg1, arg2) ==
    LET span == CurrentSpan(st)
    IN PushInteger(st, NodeNew(RealComparison(arg1, "LessThen", span, arg2), span))

RealVisitLiteral(st, val) == [st |-> st, id |-> None]

RealVisitNegate(st, op, arg) ==
    LET d == VisitRealExpr(st, arg)
    IN IF d.id = None THEN [st |-> d.st, id |-> None]
       ELSE AddToMir(d.st, Negate(op, d.id))

RealVisitCondition(st, cond, true_expr, false_expr) ==
    LET t == VisitRealExpr(st, true_expr)
        f == VisitRealExpr(t.st, false_expr)
        p == ConvertToPaired(f.st, t.id, f.id)
    IN IF ~p.ok THEN [st |-> p.st, id |-> None]
       ELSE AddToMir(p.st, Condition(cond, p.a, p.b))

RealVisitVariableReferenceSelf(st, var) == AddToMir(st, VariableReference(var))
RealVisitVariableReference(st, var) ==
    LET dvar == DerivativeVar(st, var, st.unknown)
    IN AddToMir(dvar.st, VariableReference(dvar.id))

RealVisitParameterReference(st, param) == ParamDerivative(st, param)

RealVisitBranchAccessInPlace(st, discipline_access, branch, time_derivative_order) ==
    IF st.unknown.t = "Time" /\ time_derivative_order < U8_MAX
    THEN [st |-> [st EXCEPT !.re[st.cur.id].ord = time_derivative_order + 1],
          id |-> st.cur.id]
    ELSE [st |-> st, id |-> None]
RealVisitBranchAccess(st, discipline_access, branch, time_derivative_order) ==
    IF st.unknown.t = "Time" THEN
        IF time_derivative_order + 1 > U8_MAX /\ st.checks
        THEN [st |-> Panic(st, "attempt to add with overflow"), id |-> None]
        ELSE AddToMir(st, BranchAccess(discipline_access, branch,
                                       (time_derivative_order + 1) % (U8_MAX + 1)))
    ELSE IF st.unknown.t = "NodePotential" THEN
        LET br == st.br[branch]
        IN IF br.t = "Nets" /\ br.u = st.unknown.id THEN GenConstant(st, 1)
           ELSE IF br.t = "Nets" /\ br.l = st.unknown.id THEN GenConstant(st, -1)
           ELSE [st |-> st, id |-> None]
    ELSE IF st.unknown.t = "Flow" /\ st.unknown.id = branch THEN GenConstant(st, 1)
    ELSE [st |-> st, id |-> None]

RealVisitNoise(st) == [st |-> st, id |-> None]

RealVisitTemperature(st) ==
    IF st.unknown = UTemperature THEN GenConstant(st, 1) ELSE [st |-> st, id |-> None]

RealVisitSimParam(st) == [st |-> st, id |-> None]

RealVisitIntegerConversion(st, expr) ==
    Restore(VisitIntegerExpr([st EXCEPT !.cur = IntegerId(expr)], expr), st.cur)

(***************************************************************************)
(* impl RealBinaryOperatorVisitor                                          *)
(***************************************************************************)
RealVisitSumTry(st, lhs, rhs) ==
    LET dlhs == VisitRealExpr(st, lhs)
    IN IF dlhs.id = None THEN dlhs
       ELSE LET drhs == VisitRealExpr(dlhs.st, rhs)
            IN DerivativeSum(drhs.st, dlhs.id, drhs.id)
RealVisitSum(st, lhs, rhs) ==
    LET dlhs == VisitRealExpr(st, lhs)
        drhs == VisitRealExpr(dlhs.st, rhs)
    IN DerivativeSum(drhs.st, dlhs.id, drhs.id)

RealVisitDiff(st, lhs, rhs) ==
    LET dlhs == VisitRealExpr(st, lhs)
        drhs == VisitRealExpr(dlhs.st, rhs)
        ndrhs == IF drhs.id # None THEN GenNeg(drhs.st, drhs.id)
                 ELSE [st |-> drhs.st, id |-> None]
    IN DerivativeSum(ndrhs.st, dlhs.id, ndrhs.id)

RealVisitMul(st, lhs, rhs) ==
    LET dlhs == VisitRealExpr(st, lhs)
        drhs == VisitRealExpr(dlhs.st, rhs)
    IN MulDerivative(drhs.st, lhs, dlhs.id, rhs, drhs.id)

RealVisitQuotient(st, lhs, rhs) ==
    LET dlhs == VisitRealExpr(st, lhs)
        drhs == VisitRealExpr(dlhs.st, rhs)
    IN QuotientDerivative(drhs.st, lhs, dlhs.id, rhs, drhs.id)

RealVisitPow(st, lhs, rhs) ==
    LET dlhs == VisitRealExpr(st, lhs)
        drhs == VisitRealExpr(dlhs.st, rhs)
    IN PowDerivative(drhs.st, lhs, dlhs.id, rhs, drhs.id, drhs.st.cur.id)

RealVisitModSilent(st, lhs, rhs) == [st |-> st, id |-> None]
RealVisitMod(st, lhs, rhs) == [st |-> UndefinedDerivative(st, "Modulus"), id |-> None]

\* RealBinaryOperatorVisitor::visit_real_binary_op
VisitRealBinaryOp(st, lhs, op, rhs) ==
    CASE op = "Sum" -> RealVisitSum(st, lhs, rhs)
      [] op = "Subtract" -> RealVisitDiff(st, lhs, rhs)
      [] op = "Multiply" -> RealVisitMul(st, lhs, rhs)
      [] op = "Divide" -> RealVisitQuotient(st, lhs, rhs)
      [] op = "Exponent" -> RealVisitPow(st, lhs, rhs)
      [] op = "Modulus" -> RealVisitMod(st, lhs, rhs)

(***************************************************************************)
(* impl RealBuiltInFunctionCall2pVisitor                                   *)
(***************************************************************************)
RealVisitHypotAsProduct(st, arg1, arg2) ==
    LET darg1 == VisitRealExpr(st, arg1)
        darg2 == VisitRealExpr(darg1.st, arg2)
        num == MulDerivative(darg2.st, arg1, darg1.id, arg2, darg2.id)
    IN IF num.id = None THEN num
       ELSE GenBinaryOp(num.st, num.id, "Divide", num.st.cur.id)
RealVisitHypot(st, arg1, arg2) ==
    LET darg1 == VisitRealExpr(st, arg1)
        darg2 == VisitRealExpr(darg1.st, arg2)
        num == MulDerivative(darg2.st, arg2, darg1.id, arg1, darg2.id)
    IN IF num.id = None THEN num
       ELSE GenBinaryOp(num.st, num.id, "Divide", num.st.cur.id)

RealVisitArctan2(st, arg1, arg2) ==
    LET darg1 == VisitRealExpr(st, arg1)
        darg2 == VisitRealExpr(darg1.st, arg2)
        ndarg2 == IF darg2.id # None THEN GenNeg(darg2.st, darg2.id)
                  ELSE [st |-> darg2.st, id |-> None]
        num == MulDerivative(ndarg2.st, arg1, darg1.id, arg2, ndarg2.id)
    IN IF num.id = None THEN num
       ELSE LET sum1 == GenBinaryOp(num.st, arg1, "Multiply", arg1)
                sum2 == GenBinaryOp(sum1.st, arg2, "Multiply", arg2)
                den == GenBinaryOp(sum2.st, sum1.id, "Sum", sum2.id)
            IN GenBinaryOp(den.st, num.id, "Divide", den.id)

RealVisitMaxAsMin(st, arg1, arg2) ==
    LET condition == RealGenLtCondition(st, arg1, arg2)
    IN RealVisitCondition(condition.st, condition.id, arg1, arg2)
RealVisitMax(st, arg1, arg2) ==
    LET condition == RealGenLtCondition(st, arg2, arg1)
    IN RealVisitCondition(condition.st, condition.id, arg1, arg2)

RealVisitMin(st, arg1, arg2) ==
    LET condition == RealGenLtCondition(st, arg1, arg2)
    IN RealVisitCondition(condition.st, condition.id, arg1, arg2)

\* RealBuiltInFunctionCall2pVisitor::visit_real_builtin_function_call_2p
VisitRealBuiltinFunctionCall2p(st, call, arg1, arg2) ==
    CASE call = "Pow" -> RealVisitPow(st, arg1, arg2)
      [] call = "Hypot" -> RealVisitHypot(st, arg1, arg2)
      [] call = "Arctan2" -> RealVisitArctan2(st, arg1, arg2)
      [] call = "Max" -> RealVisitMax(st, arg1, arg2)
      [] call = "Min" -> RealVisitMin(st, arg1, arg2)

(***************************************************************************)
(* impl RealBuiltInFunctionCall1pVisitor                                   *)
(***************************************************************************)
VisitSqrt(st, arg) ==
    LET inner == VisitRealExpr(st, arg)
    IN IF inner.id = None THEN inner
       ELSE LET two == GenConstant(inner.st, 2)
                num == GenBinaryOp(two.st, two.id, "Multiply", two.st.cur.id)
            IN GenBinaryOp(num.st, inner.id, "Divide", num.id)

VisitExpCloned(st, arg) ==
    LET inner == VisitRealExpr(st, arg)
    IN IF inner.id = None THEN inner
       ELSE LET clone == GenMathFunction(inner.st, "Exp", arg)
            IN GenBinaryOp(clone.st, inner.id, "Multiply", clone.id)
VisitExp(st, arg) ==
    LET inner == VisitRealExpr(st, arg)
    IN IF inner.id = None THEN inner
       ELSE GenBinaryOp(inner.st, inner.id, "Multiply", inner.st.cur.id)

VisitLn(st, arg) ==
    LET inner == VisitRealExpr(st, arg)
    IN IF inner.id = None THEN inner
       ELSE GenBinaryOp(inner.st, inner.id, "Divide", arg)

VisitLog(st, arg) ==
    LET res == VisitLn(st, arg)
    IN IF res.id = None THEN res
       ELSE LET factor == GenSymConstant(res.st, "LOG10_E")
            IN GenBinaryOp(factor.st, factor.id, "Multiply", res.id)

RealVisitAbsOfZero(st, arg) ==
    LET zero == GenConstant(st, 0)
        condition == RealGenLtCondition(zero.st, zero.id, arg)
        derivative == VisitRealExpr(condition.st, arg)
    IN IF derivative.id = None THEN derivative
       ELSE LET negated == GenNeg(derivative.st, derivative.id)
            IN AddToMir(negated.st, Condition(condition.id, negated.id, derivative.id))
RealVisitAbs(st, arg) ==
    LET zero == GenConstant(st, 0)
        condition == RealGenLtCondition(zero.st, arg, zero.id)
        derivative == VisitRealExpr(condition.st, arg)
    IN IF derivative.id = None THEN derivative
       ELSE LET negated == GenNeg(derivative.st, derivative.id)
            IN AddToMir(negated.st, Condition(condition.id, negated.id, derivative.id))

VisitFloorAsError(st, arg) == [st |-> UndefinedDerivative(st, "Rounding"), id |-> None]
VisitFloor(st, arg) == [st |-> DispatchLate(st, CurrentSpan(st), st.cur), id |-> None]

VisitCeil(st, arg) == [st |-> DispatchLate(st, CurrentSpan(st), st.cur), id |-> None]

VisitSin(st, arg) ==
    LET inner == VisitRealExpr(st, arg)
    IN IF inner.id = None THEN inner
       ELSE LET outer == GenMathFunction(inner.st, "Cos", arg)
            IN GenBinaryOp(outer.st, inner.id, "Multiply", outer.id)

VisitCos(st, arg) ==
    LET inner == VisitRealExpr(st, arg)
    IN IF inner.id = None THEN inner
       ELSE LET sin == GenMathFunction(inner.st, "Sin", arg)
                outer == GenNeg(sin.st, sin.id)
            IN GenBinaryOp(outer.st, inner.id, "Multiply", outer.id)

VisitTan(st, arg) ==
    LET inner == VisitRealExpr(st, arg)
    IN IF inner.id = None THEN inner
       ELSE LET squred == GenBinaryOp(inner.st, inner.st.cur.id, "Multiply", inner.st.cur.id)
                one == GenConstant(squred.st, 1)
                sum == GenBinaryOp(one.st, one.id, "Sum", squred.id)
            IN GenBinaryOp(sum.st, inner.id, "Multiply", sum.id)

VisitArcsin(st, arg) ==
    LET inner == VisitRealExpr(st, arg)
    IN IF inner.id = None THEN inner
       ELSE LET sqrt_arg == GenOnePlusMinusSquared(inner.st, TRUE, arg)
                den == GenMathFunction(sqrt_arg.st, "Sqrt", sqrt_arg.id)
            IN GenBinaryOp(den.st, inner.id, "Divide", den.id)

VisitArccos(st, arg) ==
    LET darcsin == VisitArcsin(st, arg)
    IN IF darcsin.id = None THEN darcsin
       ELSE GenNeg(darcsin.st, darcsin.id)

VisitArctan(st, arg) ==
    LET inner == VisitRealExpr(st, arg)
    IN IF inner.id = None THEN inner
       ELSE LET den == GenOnePlusMinusSquared(inner.st, FALSE, arg)
            IN GenBinaryOp(den.st, inner.id, "Divide", den.id)

VisitSinh(st, arg) ==
    LET inner == VisitRealExpr(st, arg)
    IN IF inner.id = None THEN inner
       ELSE LET outer == GenMathFunction(inner.st, "CosH", arg)
            IN GenBinaryOp(outer.st, inner.id, "Multiply", outer.id)

VisitCosh(st, arg) ==
    LET inner == VisitRealExpr(st, arg)
    IN IF inner.id = None THEN inner
       ELSE LET outer == GenMathFunction(inner.st, "SinH", arg)
            IN GenBinaryOp(outer.st, inner.id, "Multiply", outer.id)

VisitTanh(st, arg) ==
    LET inner == VisitRealExpr(st, arg)
    IN IF inner.id = None THEN inner
       ELSE LET outer == GenOnePlusMinusSquared(inner.st, TRUE, inner.st.cur.id)
            IN GenBinaryOp(outer.st, inner.id, "Multiply", outer.id)

VisitArcsinh(st, arg) ==
    LET inner == VisitRealExpr(st, arg)
    IN IF inner.id = None THEN inner
       ELSE LET sqrt_arg == GenOnePlusMinusSquared(inner.st, FALSE, arg)
                den == GenMathFunction(sqrt_arg.st, "Sqrt", sqrt_arg.id)
            IN GenBinaryOp(den.st, inner.id, "Divide", den.id)

VisitArccosh(st, arg) ==
    LET inner == VisitRealExpr(st, arg)
    IN IF inner.id = None THEN inner
       ELSE LET minus_sqrt_arg == GenOnePlusMinusSquared(inner.st, TRUE, arg)
                sqrt_arg == GenNeg(minus_sqrt_arg.st, minus_sqrt_arg.id)
                den == GenMathFunction(sqrt_arg.st, "Sqrt", sqrt_arg.id)
            IN GenBinaryOp(den.st, inner.id, "Divide", den.id)

VisitArctanh(st, arg) ==
    LET inner == VisitRealExpr(st, arg)
    IN IF inner.id = None THEN inner
       ELSE LET den == GenOnePlusMinusSquared(inner.st, TRUE, arg)
            IN GenBinaryOp(den.st, inner.id, "Divide", den.id)

\* RealBuiltInFunctionCall1pVisitor::visit_real_builtin_function_call_1p
VisitRealBuiltinFunctionCall1p(st, call, arg) ==
    CASE call = "Sqrt" -> VisitSqrt(st, arg)
      [] call = "Exp" -> VisitExp(st, arg)
      [] call = "Ln" -> VisitLn(st, arg)
      [] call = "Log" -> VisitLog(st, arg)
      [] call = "Abs" -> RealVisitAbs(st, arg)
      [] call = "Floor" -> VisitFloor(st, arg)
      [] call = "Ceil" -> VisitCeil(st, arg)
      [] call = "Sin" -> VisitSin(st, arg)
      [] call = "Cos" -> VisitCos(st, arg)
      [] call = "Tan" -> VisitTan(st, arg)
      [] call = "ArcSin" -> VisitArcsin(st, arg)
      [] call = "ArcCos" -> VisitArccos(st, arg)
      [] call = "ArcTan" -> VisitArctan(st, arg)
      [] call = "SinH" -> VisitSinh(st, arg)
      [] call = "CosH" -> VisitCosh(st, arg)
      [] call = "TanH" -> VisitTanh(st, arg)
      [] call = "ArcSinH" -> VisitArcsinh(st, arg)
      [] call = "ArcCosH" -> VisitArccosh(st, arg)
      [] call = "ArcTanH" -> VisitArctanh(st, arg)

\* walk_real_expression: dispatch on the variant of mir[expr]
WalkRealExpression(st, expr) ==
    LET n == st.re[expr]
    IN CASE n.k = "Literal" -> RealVisitLiteral(st, n.v)
         [] n.k = "Negate" -> RealVisitNegate(st, n.osp, n.a)
         [] n.k = "BinaryOperator" -> VisitRealBinaryOp(st, n.a, n.op, n.b)
         [] n.k = "BuiltInFunctionCall1p" -> VisitRealBuiltinFunctionCall1p(st, n.op, n.a)
         [] n.k = "BuiltInFunctionCall2p" -> VisitRealBuiltinFunctionCall2p(st, n.op, n.a, n.b)
         [] n.k = "Condition" -> RealVisitCondition(st, n.c, n.a, n.b)
         [] n.k = "VariableReference" -> RealVisitVariableReference(st, n.v)
         [] n.k = "ParameterReference" -> RealVisitParameterReference(st, n.v)
         [] n.k = "BranchAccess" -> RealVisitBranchAccess(st, n.op, n.v, n.ord)
         [] n.k = "IntegerConversion" -> RealVisitIntegerConversion(st, n.a)
         [] n.k = "Noise" -> RealVisitNoise(st)
         [] n.k = "Temperature" -> RealVisitTemperature(st)
         [] n.k = "SimParam" -> RealVisitSimParam(st)

(***************************************************************************)
(* impl IntegerExprVisitor for ExpressionAutoDiff<IntegerExpressionId>     *)
(***************************************************************************)
IntegerGenLtCondition(st, arg1, arg2) ==
    LET span == CurrentSpan(st)
    IN PushInteger(st, NodeNew(IntegerComparison(arg1, "LessThen", span, arg2), span))

IntegerVisitLiteral(st, val) == [st |-> st, id |-> None]

VisitIntegerComparison(st) ==
    [st |-> UndefinedDerivative(st, "Comparison"), id |-> None]

VisitRealComparison(st) ==
    [st |-> UndefinedDerivative(st, "Comparison"), id |-> None]

VisitUnaryOp(st, op, arg) ==
    CASE op = "ArithmeticNegate" ->
            LET d == VisitIntegerExpr(st, arg)
            IN IF d.id = None THEN d ELSE GenNeg(d.st, d.id)
      [] op = "ExplicitPositive" -> VisitIntegerExpr(st, arg)
      [] op = "BitNegate" -> [st |-> UndefinedDerivative(st, "BitWiseOp"), id |-> None]
      [] op = "LogicNegate" -> [st |-> UndefinedDerivative(st, "LogicOp"), id |-> None]

IntegerVisitCondition(st, cond, true_expr, false_expr) ==
    LET t == VisitIntegerExpr(st, true_expr)
        f == VisitIntegerExpr(t.st, false_expr)
        p == ConvertToPaired(f.st, t.id, f.id)
    IN IF ~p.ok THEN [st |-> p.st, id |-> None]
       ELSE AddToMir(p.st, Condition(cond, p.a, p.b))

IntegerVisitMin(st, arg1, arg2) ==
    LET condition == IntegerGenLtCondition(st, arg1, arg2)
    IN IntegerVisitCondition(condition.st, condition.id, arg1, arg2)

IntegerVisitMax(st, arg1, arg2) ==
    LET condition == IntegerGenLtCondition(st, arg2, arg1)
    IN IntegerVisitCondition(condition.st, condition.id, arg1, arg2)

IntegerVisitAbs(st, arg) ==
    LET zero == GenIntConstant(st, 0)
        condition == IntegerGenLtCondition(zero.st, arg, zero.id)
        derivative == VisitIntegerExpr(condition.st, arg)
    IN IF derivative.id = None THEN derivative
       ELSE LET negated == GenNeg(derivative.st, derivative.id)
            IN AddToMir(negated.st, Condition(condition.id, negated.id, derivative.id))

IntegerVisitVariableReference(st, var) ==
    LET dvar == DerivativeVar(st, var, st.unknown)
    IN AddToMir(dvar.st, VariableReference(dvar.id))

IntegerVisitParameterReference(st, param) == ParamDerivative(st, param)

VisitRealCast(st, expr) ==
    Restore(VisitRealExpr([st EXCEPT !.cur = RealId(expr)], expr), st.cur)

VisitPortConnected(st) == [st |-> st, id |-> None]

VisitParamGiven(st) == [st |-> st, id |-> None]

VisitPortReference(st) == [st |-> Panic(st, "not implemented: Ditigal"), id |-> None]

VisitNetReferenceIgnored(st) == [st |-> st, id |-> None]
VisitNetReference(st) == [st |-> Panic(st, "not implemented: Ditigal"), id |-> None]

VisitStringEq(st) == [st |-> UndefinedDerivative(st, "Comparison"), id |-> None]

VisitStringNeq(st) == [st |-> UndefinedDerivative(st, "Comparison"), id |-> None]

(***************************************************************************)
(* impl IntegerBinaryOperatorVisitor                                       *)
(***************************************************************************)
IntegerVisitSum(st, lhs, rhs) ==
    LET dlhs == VisitIntegerExpr(st, lhs)
        drhs == VisitIntegerExpr(dlhs.st, rhs)
    IN DerivativeSum(drhs.st, dlhs.id, drhs.id)

IntegerVisitDiff(st, lhs, rhs) ==
    LET dlhs == VisitIntegerExpr(st, lhs)
        drhs == VisitIntegerExpr(dlhs.st, rhs)
        ndrhs == IF drhs.id # None THEN GenNeg(drhs.st, drhs.id)
                 ELSE [st |-> drhs.st, id |-> None]
    IN DerivativeSum(ndrhs.st, dlhs.id, ndrhs.id)

IntegerVisitMulUnwrapped(st, lhs, rhs) ==
    LET dlhs == VisitIntegerExpr(st, lhs)
        drhs == VisitIntegerExpr(dlhs.st, rhs)
    IN MulDerivative(drhs.st, lhs, dlhs.id, rhs, drhs.id)
IntegerVisitMul(st, lhs, rhs) ==
    LET dlhs == VisitIntegerExpr(st, lhs)
        drhs == VisitIntegerExpr(dlhs.st, rhs)
        clhs == AddToMir(drhs.st, IntegerConversion(lhs))
        crhs == AddToMir(clhs.st, IntegerConversion(rhs))
    IN MulDerivative(crhs.st, clhs.id, dlhs.id, crhs.id, drhs.id)

IntegerVisitQuotientLazy(st, lhs, rhs) ==
    LET dlhs == VisitIntegerExpr(st, lhs)
        drhs == VisitIntegerExpr(dlhs.st, rhs)
    IN IF dlhs.id = None /\ drhs.id = None THEN [st |-> drhs.st, id |-> None]
       ELSE LET clhs == AddToMir(drhs.st, IntegerConversion(lhs))
                crhs == AddToMir(clhs.st, IntegerConversion(rhs))
            IN QuotientDerivative(crhs.st, clhs.id, dlhs.id, crhs.id, drhs.id)
IntegerVisitQuotient(st, lhs, rhs) ==
    LET dlhs == VisitIntegerExpr(st, lhs)
        drhs == VisitIntegerExpr(dlhs.st, rhs)
        clhs == AddToMir(drhs.st, IntegerConversion(lhs))
        crhs == AddToMir(clhs.st, IntegerConversion(rhs))
    IN QuotientDerivative(crhs.st, clhs.id, dlhs.id, crhs.id, drhs.id)

IntegerVisitPowCopies(st, lhs, rhs) ==
    LET dlhs == VisitIntegerExpr(st, lhs)
        drhs == VisitIntegerExpr(dlhs.st, rhs)
        clhs == AddToMir(drhs.st, IntegerConversion(lhs))
        crhs == AddToMir(clhs.st, IntegerConversion(rhs))
        copy == AddToMir(crhs.st, IntegerConversion(crhs.st.cur.id))
        original == AddToMir(copy.st, IntegerConversion(copy.st.cur.id))
    IN PowDerivative(original.st, clhs.id, dlhs.id, crhs.id, drhs.id, original.id)
IntegerVisitPow(st, lhs, rhs) ==
    LET dlhs == VisitIntegerExpr(st, lhs)
        drhs == VisitIntegerExpr(dlhs.st, rhs)
        clhs == AddToMir(drhs.st, IntegerConversion(lhs))
        crhs == AddToMir(clhs.st, IntegerConversion(rhs))
        original == AddToMir(crhs.st, IntegerConversion(crhs.st.cur.id))
    IN PowDerivative(original.st, clhs.id, dlhs.id, crhs.id, drhs.id, original.id)

IntegerVisitMod(st, lhs, rhs) == [st |-> UndefinedDerivative(st, "Modulus"), id |-> None]

VisitShiftLhsFirst(st, lhs, rhs, ln2name) ==
    LET dlhs == VisitIntegerExpr(st, lhs)
        drhs == VisitIntegerExpr(dlhs.st, rhs)
        product == IF drhs.id # None
                   THEN LET clhs == AddToMir(drhs.st, IntegerConversion(lhs))
                            ln2 == GenSymConstant(clhs.st, ln2name)
                            prod == GenBinaryOp(ln2.st, ln2.id, "Multiply", clhs.id)
                        IN GenBinaryOp(prod.st, prod.id, "Multiply", drhs.id)
                   ELSE [st |-> drhs.st, id |-> None]
        sum == DerivativeSum(product.st, dlhs.id, product.id)
    IN IF sum.id = None THEN sum
       ELSE LET expr == AddToMir(sum.st, IntegerConversion(sum.st.cur.id))
            IN GenBinaryOp(expr.st, sum.id, "Multiply", expr.id)
\* the body shared by visit_shiftl (ln2 = "LN_2") and visit_shiftr
\* (ln2 = "NEG_LN_2", the literal -1.0 * LN_2)
VisitShift(st, lhs, rhs, ln2name) ==
    LET drhs == VisitIntegerExpr(st, rhs)
        product == IF drhs.id # None
                   THEN LET clhs == AddToMir(drhs.st, IntegerConversion(lhs))
                            ln2 == GenSymConstant(clhs.st, ln2name)
                            prod == GenBinaryOp(ln2.st, ln2.id, "Multiply", clhs.id)
                        IN GenBinaryOp(prod.st, prod.id, "Multiply", drhs.id)
                   ELSE [st |-> drhs.st, id |-> None]
        dlhs == VisitIntegerExpr(product.st, lhs)
        sum == DerivativeSum(dlhs.st, dlhs.id, product.id)
    IN IF sum.id = None THEN sum
       ELSE LET expr == AddToMir(sum.st, IntegerConversion(sum.st.cur.id))
            IN GenBinaryOp(expr.st, sum.id, "Multiply", expr.id)

VisitShiftl(st, lhs, rhs) == VisitShift(st, lhs, rhs, "LN_2")

VisitShiftr(st, lhs, rhs) == VisitShift(st, lhs, rhs, "NEG_LN_2")

VisitXor(st, lhs, rhs) == [st |-> UndefinedDerivative(st, "BitWiseOp"), id |-> None]

VisitNXor(st, lhs, rhs) == [st |-> UndefinedDerivative(st, "BitWiseOp"), id |-> None]

VisitAnd(st, lhs, rhs) == [st |-> UndefinedDerivative(st, "BitWiseOp"), id |-> None]

VisitOr(st, lhs, rhs) == [st |-> UndefinedDerivative(st, "BitWiseOp"), id |-> None]

VisitLogicAnd(st, lhs, rhs) == [st |-> UndefinedDerivative(st, "LogicOp"), id |-> None]

VisitLogicOr(st, lhs, rhs) == [st |-> UndefinedDerivative(st, "LogicOp"), id |-> None]

\* IntegerBinaryOperatorVisitor::visit_integer_binary_op
VisitIntegerBinaryOp(st, lhs, op, rhs) ==
    CASE op = "Sum" -> IntegerVisitSum(st, lhs, rhs)
      [] op = "Subtract" -> IntegerVisitDiff(st, lhs, rhs)
      [] op = "Multiply" -> IntegerVisitMul(st, lhs, rhs)
      [] op = "Divide" -> IntegerVisitQuotient(st, lhs, rhs)
      [] op = "Exponent" -> IntegerVisitPow(st, lhs, rhs)
      [] op = "Modulus" -> IntegerVisitMod(st, lhs, rhs)
      [] op = "ShiftLeft" -> VisitShiftl(st, lhs, rhs)
      [] op = "ShiftRight" -> VisitShiftr(st, lhs, rhs)
      [] op = "Xor" -> VisitXor(st, lhs, rhs)
      [] op = "NXor" -> VisitNXor(st, lhs, rhs)
      [] op = "And" -> VisitAnd(st, lhs, rhs)
      [] op = "Or" -> VisitOr(st, lhs, rhs)
      [] op = "LogicAnd" -> VisitLogicAnd(st, lhs, rhs)
      [] op = "LogicOr" -> VisitLogicOr(st, lhs, rhs)

\* walk_integer_expression: dispatch on the variant of mir[expr]
WalkIntegerExpression(st, expr) ==
    LET n == st.ie[expr]
    IN CASE n.k = "Literal" -> IntegerVisitLiteral(st, n.v)
         [] n.k = "BinaryOperator" -> VisitIntegerBinaryOp(st, n.a, n.op, n.b)
         [] n.k = "UnaryOperator" -> VisitUnaryOp(st, n.op, n.a)
         [] n.k = "IntegerComparison" -> VisitIntegerComparison(st)
         [] n.k = "RealComparison" -> VisitRealComparison(st)
         [] n.k = "StringEq" -> VisitStringEq(st)
         [] n.k = "StringNEq" -> VisitStringNeq(st)
         [] n.k = "Condition" -> IntegerVisitCondition(st, n.c, n.a, n.b)
         [] n.k = "Min" -> IntegerVisitMin(st, n.a, n.b)
         [] n.k = "Max" -> IntegerVisitMax(st, n.a, n.b)
         [] n.k = "Abs" -> IntegerVisitAbs(st, n.a)
         [] n.k = "VariableReference" -> IntegerVisitVariableReference(st, n.v)
         [] n.k = "ParameterReference" -> IntegerVisitParameterReference(st, n.v)
         [] n.k = "RealCast" -> VisitRealCast(st, n.a)
         [] n.k = "PortConnected" -> VisitPortConnected(st)
         [] n.k = "ParamGiven" -> VisitParamGiven(st)
         [] n.k = "PortReference" -> VisitPortReference(st)
         [] n.k = "NetReference" -> VisitNetReference(st)

VisitIntegerExpr(st, expr) ==
    IF st.abort # "" THEN [st |-> st, id |-> None]
    ELSE Restore(WalkIntegerExpression([st EXCEPT !.cur = IntegerId(expr)], expr), st.cur)

VisitRealExpr(st, expr) ==
    IF st.abort # "" THEN [st |-> st, id |-> None]
    ELSE Restore(WalkRealExpression([st EXCEPT !.cur = RealId(expr)], expr), st.cur)


(***************************************************************************)
(* Entry point                                                             *)
(***************************************************************************)
\* derivative.unwrap_or_else(|| self.gen_constant(0.0))
UnwrapOrSharedZero(d) ==
    IF d.id # None THEN d
    ELSE IF \E i \in 1..Len(d.st.re) : d.st.re[i].k = "Literal" /\ d.st.re[i].v = 0
                                        /\ d.st.re[i].sym = ""
    THEN [st |-> d.st,
          id |-> CHOOSE i \in 1..Len(d.st.re) : d.st.re[i].k = "Literal" /\ d.st.re[i].v = 0
                                                /\ d.st.re[i].sym = ""]
    ELSE GenConstant(d.st, 0)
UnwrapOrZero(d) == IF d.id # None THEN d ELSE GenConstant(d.st, 0)

\* ExpressionAutoDiff<RealExpressionId>::run
RealRunNoZero(st) == VisitRealExpr(st, st.cur.id)
RealRun(st) == UnwrapOrZero(VisitRealExpr(st, st.cur.id))

\* ExpressionAutoDiff<IntegerExpressionId>::run
IntegerRun(st) == UnwrapOrZero(VisitIntegerExpr(st, st.cur.id))

\* AutoDiff::partial_derivative
PartialDerivativeSpanned(st, expr, derive_by) ==
    CASE expr.t = "Real" -> RealRun([st EXCEPT !.cur = expr, !.unknown = derive_by])
      [] expr.t = "Integer" -> IntegerRun([st EXCEPT !.cur = expr, !.unknown = derive_by])
      [] expr.t = "String" ->
            GenConstant([st EXCEPT !.cur = expr, !.unknown = derive_by,
                                   !.errors = Append(st.errors,
                                       [err |-> "OnlyNumericExpressionsCanBeDerived",
                                        reason |-> "", sp |-> st.se[expr.id].sp])], 0)
PartialDerivativeOf(st, expr, derive_by) ==
    CASE expr.t = "Real" -> RealRun([st EXCEPT !.cur = expr, !.unknown = derive_by])
      [] expr.t = "Integer" -> IntegerRun([st EXCEPT !.cur = expr, !.unknown = derive_by])
      [] expr.t = "String" ->
            PushReal([st EXCEPT !.cur = expr, !.unknown = derive_by,
                                !.errors = Append(st.errors,
                                    [err |-> "OnlyNumericExpressionsCanBeDerived",
                                     reason |-> "", sp |-> st.se[expr.id].sp])],
                     NodeNew(Literal(0), DUMMY_SP))


(***************************************************************************)
(* The lowered MIRs the differentiator is run on.                          *)
(***************************************************************************)
RealBinaryOperators == {"Sum", "Subtract", "Multiply", "Divide", "Exponent", "Modulus"}
BuiltIn1pCalls == {"Sqrt", "Exp", "Ln", "Log", "Abs", "Floor", "Ceil", "Sin", "Cos", "Tan",
                   "ArcSin", "ArcCos", "ArcTan", "SinH", "CosH", "TanH",
                   "ArcSinH", "ArcCosH", "ArcTanH"}
BuiltIn2pCalls == {"Pow", "Hypot", "Arctan2", "Min", "Max"}
IntegerBinaryOperators ==
    RealBinaryOperators \cup {"ShiftLeft", "ShiftRight", "Xor", "NXor", "And", "Or",
                              "LogicAnd", "LogicOr"}
UnaryOperators == {"ArithmeticNegate", "ExplicitPositive", "BitNegate", "LogicNegate"}

\* spans as the lowering assigns them: every node has its own, and the span
\* of an operator differs from the span of its expression
SpanBase == [Real |-> 10, Integer |-> 40, String |-> 70, Operator |-> 100]
Spanned(seq, base) ==
    [i \in 1..Len(seq) |->
        [seq[i] EXCEPT !.sp = base + i,
                       !.osp = IF seq[i].k \in {"Negate", "BinaryOperator", "UnaryOperator",
                                                "IntegerComparison", "RealComparison"}
                               THEN SpanBase.Operator + base + i ELSE 0]]

\* branches 1..5 over the nets 1..3 and the port 1
Branches == <<BranchNets(1, 2), BranchNets(2, 1), BranchPort(1), BranchNets(2, 3),
              BranchNets(1, 1)>>
\* variable 1 is real, variable 2 is an integer
Variables == <<[type |-> "Real", base |-> 0], [type |-> "Integer", base |-> 0]>>
Strings == Spanned(<<Literal(0), Literal(0)>>, SpanBase.String)

\* the unknowns a caller derives by
ParameterUnknowns == {UParameter(1), UTemperature}
BranchUnknowns == {UNodePotential(1), UFlow(1), UTime}

\* the expressions every MIR below starts with
RealBase == <<Literal(3), ParameterReference(1), ParameterReference(2),
              VariableReference(1), BinaryOperator(2, "Modulus", 0, 1),
              BranchAccess("Potential", 1, 0), Temperature, Noise(1), SimParam(1, 0),
              BuiltInFunctionCall1p("Floor", 5)>>
IntegerBase == <<Literal(2), VariableReference(2), ParameterReference(1),
                 BinaryOperator(1, "Xor", 0, 2), RealComparison(2, "LessThen", 0, 1),
                 NetReference(1)>>
RealOperands == {1, 2, 4, 5}
IntegerOperands == {1, 2, 4, 5}

Lowered(re, ie, roots, by) ==
    [re |-> Spanned(re, SpanBase.Real), ie |-> Spanned(ie, SpanBase.Integer),
     roots |-> roots, by |-> by, checks |-> TRUE]
RealTop(node) ==
    Lowered(Append(RealBase, node), IntegerBase, {RealId(Len(RealBase) + 1)},
            ParameterUnknowns)
IntegerTop(node) ==
    Lowered(RealBase, Append(IntegerBase, node), {IntegerId(Len(IntegerBase) + 1)},
            ParameterUnknowns)

RealBinaryMirs ==
    {RealTop(BinaryOperator(a, op, 0, b)) :
        op \in RealBinaryOperators, a \in RealOperands, b \in RealOperands}
RealCall1pMirs ==
    {RealTop(BuiltInFunctionCall1p(call, a)) : call \in BuiltIn1pCalls, a \in RealOperands}
RealCall2pMirs ==
    {RealTop(BuiltInFunctionCall2p(call, a, b)) :
        call \in BuiltIn2pCalls, a \in RealOperands, b \in RealOperands}
RealOtherMirs ==
    {RealTop(Condition(5, a, b)) : a \in RealOperands, b \in RealOperands}
    \cup {RealTop(Negate(0, a)) : a \in RealOperands}
    \cup {RealTop(IntegerConversion(a)) : a \in 1..Len(IntegerBase)}
IntegerBinaryMirs ==
    {IntegerTop(BinaryOperator(a, op, 0, b)) :
        op \in IntegerBinaryOperators, a \in IntegerOperands, b \in IntegerOperands}
IntegerOtherMirs ==
    {IntegerTop(UnaryOperator(op, 0, a)) : op \in UnaryOperators, a \in IntegerOperands}
    \cup {IntegerTop(IntMin(a, b)) : a \in IntegerOperands, b \in IntegerOperands}
    \cup {IntegerTop(IntMax(a, b)) : a \in IntegerOperands, b \in IntegerOperands}
    \cup {IntegerTop(IntAbs(a)) : a \in IntegerOperands}
    \cup {IntegerTop(Condition(5, a, b)) : a \in IntegerOperands, b \in IntegerOperands}
    \cup {IntegerTop(RealCast(a)) : a \in 1..Len(RealBase)}
    \cup {IntegerTop(IntegerComparison(1, "LessThen", 0, 2)),
          IntegerTop(RealComparison(1, "LessThen", 0, 2)), IntegerTop(StringEq(1, 2)),
          IntegerTop(StringNEq(1, 2)), IntegerTop(PortConnected(1)),
          IntegerTop(ParamGiven(1)), IntegerTop(PortReference(1))}

\* branch accesses of every kind of branch, up to the largest order
\* (the only MIRs derived by time, so the only ones where the build matters)
BranchAccessMirs ==
    {[Lowered(Append(RealBase, BranchAccess(access, branch, order)), IntegerBase,
              {RealId(Len(RealBase) + 1)}, BranchUnknowns) EXCEPT !.checks = checks] :
        access \in {"Potential", "Flow"}, branch \in 1..Len(Branches),
        order \in {0, U8_MAX - 1, U8_MAX}, checks \in BOOLEAN}

\* expressions two operators deep, expressions that share a node, and the
\* leaves and the strings as the differentiated expression
NestedMirs ==
    {Lowered(RealBase \o nodes, IntegerBase,
             {RealId(Len(RealBase) + Len(nodes))}, ParameterUnknowns) :
        nodes \in {
            \* x*x + 2*x + 1
            <<Literal(2), Literal(1), BinaryOperator(2, "Multiply", 0, 2),
              BinaryOperator(11, "Multiply", 0, 2), BinaryOperator(13, "Sum", 0, 14),
              BinaryOperator(15, "Sum", 0, 12)>>,
            \* (x mod 3) + (x mod 3), one node used twice
            <<BinaryOperator(5, "Sum", 0, 5)>>,
            \* (x mod 3) mod 3
            <<BinaryOperator(5, "Modulus", 0, 1)>>,
            \* tan(v + (x mod 3))
            <<BinaryOperator(4, "Sum", 0, 5), BuiltInFunctionCall1p("Tan", 11)>>,
            \* (v * x) * (x mod 3)
            <<BinaryOperator(4, "Multiply", 0, 2), BinaryOperator(11, "Multiply", 0, 5)>>,
            \* sqrt(floor(x mod 3) + x)
            <<BinaryOperator(10, "Sum", 0, 2), BuiltInFunctionCall1p("Sqrt", 11)>>,
            \* if (x < 3) (x mod 3) / v else -(x mod 3)
            <<BinaryOperator(5, "Divide", 0, 4), Negate(0, 5), Condition(5, 11, 12)>>,
            \* if (x < 3) (x mod 3) else (3 mod x)
            <<BinaryOperator(1, "Modulus", 0, 2), Condition(5, 5, 11)>>,
            \* x^16 as four squarings, each the product of one node with itself
            <<BinaryOperator(2, "Multiply", 0, 2), BinaryOperator(11, "Multiply", 0, 11),
              BinaryOperator(12, "Multiply", 0, 12), BinaryOperator(13, "Multiply", 0, 13)>>,
            \* abs(3) * x
            <<BuiltInFunctionCall1p("Abs", 1), BinaryOperator(11, "Multiply", 0, 2)>>,
            \* max(3, 3) + max(3, 3), one node used twice
            <<BuiltInFunctionCall2p("Max", 1, 1), BinaryOperator(11, "Sum", 0, 11)>>,
            \* exp(n), the integer variable n converted
            <<IntegerConversion(2), BuiltInFunctionCall1p("Exp", 11)>>
        }}
    \* (x mod 3) op (3 mod x), f(x mod 3, 3 mod x)
    \cup {Lowered(RealBase \o <<BinaryOperator(1, "Modulus", 0, 2), node>>, IntegerBase,
                  {RealId(Len(RealBase) + 2)}, ParameterUnknowns) :
            node \in {BinaryOperator(5, op, 0, 11) : op \in RealBinaryOperators}
                     \cup {BuiltInFunctionCall2p(call, 5, 11) : call \in BuiltIn2pCalls}}
    \cup {Lowered(RealBase, IntegerBase \o nodes,
                  {IntegerId(Len(IntegerBase) + Len(nodes))}, ParameterUnknowns) :
        nodes \in {
            \* (2 ^ n) << (n && 2)
            <<BinaryOperator(2, "LogicAnd", 0, 1), BinaryOperator(4, "ShiftLeft", 0, 7)>>,
            \* (2 ^ n) ^ (x < 3)
            <<BinaryOperator(4, "Xor", 0, 5)>>,
            \* if (x < 3) net else n
            <<Condition(5, 6, 2)>>,
            \* if (net) n else 2
            <<Condition(6, 2, 1)>>,
            \* if (n < 2) p else 2
            <<IntegerComparison(2, "LessThen", 0, 1), Condition(7, 3, 1)>>,
            \* n * net
            <<BinaryOperator(2, "Multiply", 0, 6)>>,
            \* net % n
            <<BinaryOperator(6, "Modulus", 0, 2)>>,
            \* (2 ** 2) + n
            <<BinaryOperator(1, "Exponent", 0, 1), BinaryOperator(7, "Sum", 0, 2)>>
        }}
    \cup {Lowered(RealBase, IntegerBase, {RealId(i) : i \in {1, 2, 3, 4, 7, 8, 9}},
                  ParameterUnknowns),
          Lowered(RealBase, IntegerBase, {StringId(1), StringId(2), IntegerId(3)},
                  ParameterUnknowns)}

\* the polynomials over the literal 3 and the parameters 1 and 2 that are two
\* operators deep, the polynomial x*x + 2*x + 1, and the leaves
PolynomialLeaves == {1, 2, 3}
PolynomialOperators == {"Sum", "Subtract", "Multiply"}
PolynomialInner ==
    {BinaryOperator(a, op, 0, b) :
        op \in PolynomialOperators, a \in PolynomialLeaves, b \in PolynomialLeaves}
    \cup {Negate(0, a) : a \in PolynomialLeaves}
PolynomialOuter ==
    {BinaryOperator(Len(RealBase) + 1, op, 0, b) :
        op \in PolynomialOperators, b \in PolynomialLeaves \cup {Len(RealBase) + 1}}
    \cup {BinaryOperator(a, op, 0, Len(RealBase) + 1) :
            op \in PolynomialOperators, a \in PolynomialLeaves}
    \cup {Negate(0, Len(RealBase) + 1)}
PolynomialTop(nodes, roots) ==
    Lowered(RealBase \o nodes, IntegerBase, roots, {UParameter(1), UParameter(2)})
PolynomialMirs ==
    {PolynomialTop(<<inner, outer>>, {RealId(Len(RealBase) + 2)}) :
        inner \in PolynomialInner, outer \in PolynomialOuter}
    \cup {PolynomialTop(<<Literal(2), Literal(1), BinaryOperator(2, "Multiply", 0, 2),
                          BinaryOperator(11, "Multiply", 0, 2),
                          BinaryOperator(13, "Sum", 0, 14),
                          BinaryOperator(15, "Sum", 0, 12)>>, {RealId(16)}),
          PolynomialTop(<<>>, {RealId(i) : i \in PolynomialLeaves})}

Mirs == RealBinaryMirs \cup RealCall1pMirs \cup RealCall2pMirs \cup RealOtherMirs
        \cup IntegerBinaryMirs \cup IntegerOtherMirs \cup BranchAccessMirs \cup NestedMirs

(***************************************************************************)
(* The state machine                                                       *)
(***************************************************************************)
VARIABLES
    real_expressions,     \* mir.real_expressions
    integer_expressions,  \* mir.integer_expressions
    string_expressions,   \* mir.string_expressions
    branches,             \* mir.branches
    variables,            \* mir.variables
    derivatives,          \* mir.derivatives: (variable, unknown) -> derivative variable
    errors,               \* ad.errors
    lints,                \* the lints dispatched
    aborted,              \* "" or the message of the panic that ended the program
    targets,              \* the expression ids the caller holds
    unknowns,             \* the unknowns the caller derives by
    overflow_checks,      \* whether the build traps integer overflow or wraps
    calls,                \* number of partial_derivative calls made
    last                  \* the last call: its arguments, its result, the state
                          \* before it and the order of its pushes

vars == <<real_expressions, integer_expressions, string_expressions, branches, variables,
          derivatives, errors, lints, aborted, targets, unknowns, overflow_checks, calls, last>>

\* the state a call starts from
Current ==
    [re |-> real_expressions, ie |-> integer_expressions, se |-> string_expressions,
     br |-> branches, vars |-> variables, dv |-> derivatives,
     errors |-> errors, lints |-> lints,
     cur |-> StringId(0), unknown |-> UTime, abort |-> "",
     checks |-> overflow_checks, log |-> <<>>]

\* the program holds the lowered MIR m and has not called the differentiator
Lowering(m) ==
    /\ real_expressions = m.re
    /\ integer_expressions = m.ie
    /\ string_expressions = Strings
    /\ branches = Branches
    /\ variables = Variables
    /\ derivatives = <<>>
    /\ errors = <<>>
    /\ lints = <<>>
    /\ aborted = ""
    /\ targets = m.roots
    /\ unknowns = m.by
    /\ overflow_checks = m.checks
    /\ calls = 0
    /\ last = [expr |-> StringId(0), by |-> UTime, id |-> None,
               pre |-> Current, log |-> <<>>]

Init == \E m \in Mirs : Lowering(m)

\* the differentiator run on polynomials only
PolynomialInit == \E m \in PolynomialMirs : Lowering(m)

\* what a call that ended in r leaves behind: the MIR and the sink as the
\* call left them, and the returned id in the hands of the caller
Returns(r, expr, derive_by) ==
    /\ real_expressions' = r.st.re
    /\ integer_expressions' = r.st.ie
    /\ string_expressions' = r.st.se
    /\ branches' = r.st.br
    /\ variables' = r.st.vars
    /\ derivatives' = r.st.dv
    /\ errors' = r.st.errors
    /\ lints' = r.st.lints
    /\ aborted' = r.st.abort
    /\ targets' = IF r.st.abort = "" THEN targets \cup {RealId(r.id)} ELSE targets
    /\ last' = [expr |-> expr, by |-> derive_by,
                id |-> IF r.st.abort = "" THEN r.id ELSE None,
                pre |-> Current, log |-> r.st.log]

\* the caller runs ad.partial_derivative(expr, derive_by)
PartialDerivative(expr, derive_by) ==
    /\ aborted = ""
    /\ calls < MaxCalls
    /\ Returns(PartialDerivativeOf(Current, expr, derive_by), expr, derive_by)
    /\ calls' = calls + 1
    /\ UNCHANGED <<unknowns, overflow_checks>>

Next ==
    \E expr \in targets, derive_by \in unknowns : PartialDerivative(expr, derive_by)

Spec == Init /\ [][Next]_vars

PolynomialSpec == PolynomialInit /\ [][Next]_vars


(***************************************************************************)
(* Reading a MIR: the operands of a node, the operands the differentiator  *)
(* descends into, and the operators without a derivative.                  *)
(***************************************************************************)
NodeAt(m, e) == IF e.t = "Real" THEN m.re[e.id] ELSE m.ie[e.id]

\* every expression id stored in a node
OperandsOf(t, n) ==
    IF t = "Real" THEN
        CASE n.k \in {"Negate", "BuiltInFunctionCall1p", "Noise"} -> {RealId(n.a)}
          [] n.k \in {"BinaryOperator", "BuiltInFunctionCall2p"} -> {RealId(n.a), RealId(n.b)}
          [] n.k = "Condition" -> {IntegerId(n.c), RealId(n.a), RealId(n.b)}
          [] n.k = "IntegerConversion" -> {IntegerId(n.a)}
          [] n.k = "SimParam" ->
                {StringId(n.v)} \cup (IF n.a # 0 THEN {RealId(n.a)} ELSE {})
          [] OTHER -> {}
    ELSE
        CASE n.k \in {"BinaryOperator", "IntegerComparison", "Min", "Max"} ->
                {IntegerId(n.a), IntegerId(n.b)}
          [] n.k \in {"UnaryOperator", "Abs"} -> {IntegerId(n.a)}
          [] n.k = "RealComparison" -> {RealId(n.a), RealId(n.b)}
          [] n.k \in {"StringEq", "StringNEq"} -> {StringId(n.a), StringId(n.b)}
          [] n.k = "Condition" -> {IntegerId(n.c), IntegerId(n.a), IntegerId(n.b)}
          [] n.k = "RealCast" -> {RealId(n.a)}
          [] OTHER -> {}

\* the operands a rule differentiates, in the order it visits them
TraversedOf(t, n) ==
    IF t = "Real" THEN
        CASE n.k = "Negate" -> <<RealId(n.a)>>
          [] n.k = "BinaryOperator" /\ n.op # "Modulus" -> <<RealId(n.a), RealId(n.b)>>
          [] n.k = "BuiltInFunctionCall1p" /\ n.op \notin {"Floor", "Ceil"} -> <<RealId(n.a)>>
          [] n.k \in {"BuiltInFunctionCall2p", "Condition"} -> <<RealId(n.a), RealId(n.b)>>
          [] n.k = "IntegerConversion" -> <<IntegerId(n.a)>>
          [] OTHER -> <<>>
    ELSE
        CASE n.k = "BinaryOperator"
                /\ n.op \in {"Sum", "Subtract", "Multiply", "Divide", "Exponent"} ->
                <<IntegerId(n.a), IntegerId(n.b)>>
          [] n.k = "BinaryOperator" /\ n.op \in {"ShiftLeft", "ShiftRight"} ->
                <<IntegerId(n.b), IntegerId(n.a)>>
          [] n.k = "UnaryOperator" /\ n.op \in {"ArithmeticNegate", "ExplicitPositive"} ->
                <<IntegerId(n.a)>>
          [] n.k \in {"Condition", "Min", "Max"} -> <<IntegerId(n.a), IntegerId(n.b)>>
          [] n.k = "Abs" -> <<IntegerId(n.a)>>
          [] n.k = "RealCast" -> <<RealId(n.a)>>
          [] OTHER -> <<>>

\* mod, the bitwise and the logic operators, and the comparisons
IsUndefinedOp(t, n) ==
    IF t = "Real" THEN n.k = "BinaryOperator" /\ n.op = "Modulus"
    ELSE \/ n.k = "BinaryOperator"
            /\ n.op \in {"Modulus", "Xor", "NXor", "And", "Or", "LogicAnd", "LogicOr"}
         \/ n.k = "UnaryOperator" /\ n.op \in {"BitNegate", "LogicNegate"}
         \/ n.k \in {"IntegerComparison", "RealComparison", "StringEq", "StringNEq"}

\* number of times the traversal from e arrives at an operator without a derivative
RECURSIVE UndefinedVisits(_, _)
UndefinedVisits(m, e) ==
    LET n == NodeAt(m, e)
        tr == TraversedOf(e.t, n)
    IN (IF IsUndefinedOp(e.t, n) THEN 1 ELSE 0)
       + (IF Len(tr) >= 1 THEN UndefinedVisits(m, tr[1]) ELSE 0)
       + (IF Len(tr) >= 2 THEN UndefinedVisits(m, tr[2]) ELSE 0)

\* the traversal from e arrives at a node whose rule panics
RECURSIVE FatalVisit(_, _, _)
FatalVisit(m, e, by) ==
    LET n == NodeAt(m, e)
        tr == TraversedOf(e.t, n)
    IN \/ e.t = "Integer" /\ n.k \in {"PortReference", "NetReference"}
       \/ e.t = "Real" /\ n.k = "BranchAccess" /\ n.ord = U8_MAX /\ by = UTime /\ m.checks
       \/ Len(tr) >= 1 /\ FatalVisit(m, tr[1], by)
       \/ Len(tr) >= 2 /\ FatalVisit(m, tr[2], by)

\* the nodes reachable from e through operand positions other than the
\* condition of a conditional
RECURSIVE ReachableOperands(_, _)
ReachableOperands(m, e) ==
    LET n == NodeAt(m, e)
        ops == {o \in OperandsOf(e.t, n) :
                    o.t # "String" /\ ~(n.k = "Condition" /\ o = IntegerId(n.c))}
    IN {e} \cup UNION {ReachableOperands(m, o) : o \in ops}

\* the nodes reachable from e through any operand position
RECURSIVE Reachable(_, _)
Reachable(m, e) ==
    IF e.t = "String" THEN {e}
    ELSE {e} \cup UNION {Reachable(m, o) : o \in OperandsOf(e.t, NodeAt(m, e))}

IsPrefix(s, t) == Len(s) <= Len(t) /\ SubSeq(t, 1, Len(s)) = s

Called == calls > 0
Returned == calls > 0 /\ aborted = ""
Numeric == last.expr.t \in {"Real", "Integer"}
\* the entries the last call added to the sink
NewErrors == SubSeq(errors, Len(last.pre.errors) + 1, Len(errors))
NewUndefined == SelectSeq(NewErrors, LAMBDA x : x.err = "DerivativeNotDefined")
\* the real nodes the last call appended
NewReal == (Len(last.pre.re) + 1)..Len(real_expressions)
NewInteger == (Len(last.pre.ie) + 1)..Len(integer_expressions)
Now == [re |-> real_expressions, ie |-> integer_expressions, se |-> string_expressions]

(***************************************************************************)
(* C1                                                                      *)
(***************************************************************************)
\* C1 as stated: every call returns normally with the id of a node of the
\* real arena
C1_AlwaysReturns ==
    Called => aborted = "" /\ last.id \in 1..Len(real_expressions)

\* C1 amended: a call panics exactly when its traversal arrives at a port or
\* net reference, or, in a build that traps overflow, at a branch access of
\* order 255 differentiated by time; every other call returns the id of a
\* node of the real arena, however many derivatives were undefined
C1_ReturnsUnlessFatal ==
    Called =>
        /\ aborted # "" <=> (Numeric /\ FatalVisit(last.pre, last.expr, last.by))
        /\ aborted = "" => last.id \in 1..Len(real_expressions)

C1_Witness ==
    /\ Returned
    /\ Len(NewUndefined) > 0
    /\ last.id \in 1..Len(real_expressions)

(***************************************************************************)
(* C2                                                                      *)
(***************************************************************************)
\* the operators without a derivative among the nodes reachable from e
\* through operand positions other than the condition of a conditional
UndefinedOccurrences(m, e) ==
    {o \in ReachableOperands(m, e) : IsUndefinedOp(o.t, NodeAt(m, o))}

\* C2 as stated: a call adds one DerivativeNotDefined entry for each such
\* occurrence, nested ones included and a shared one counted once
C2_OnePerOccurrence ==
    Returned /\ Numeric =>
        Len(NewUndefined) = Cardinality(UndefinedOccurrences(last.pre, last.expr))

\* C2 amended: a call that returns adds one DerivativeNotDefined entry for
\* each arrival of the traversal at mod, a bitwise operator, a logic operator
\* or a comparison.  The traversal descends only into the operands a rule
\* differentiates: not below an operator without a derivative, not below
\* floor or ceil, not into the condition of a conditional; and it arrives
\* once for every operand position that refers to a node.
C2_OnePerVisit ==
    Returned /\ Numeric => Len(NewUndefined) = UndefinedVisits(last.pre, last.expr)

\* a sum whose two operands are one mod node: one occurrence, two entries
C2_Witness ==
    /\ Returned
    /\ last.expr.t = "Real"
    /\ NodeAt(last.pre, last.expr).k = "BinaryOperator"
    /\ NodeAt(last.pre, last.expr).op = "Sum"
    /\ NodeAt(last.pre, last.expr).a = NodeAt(last.pre, last.expr).b
    /\ Cardinality(UndefinedOccurrences(last.pre, last.expr)) = 1
    /\ Len(NewUndefined) = 2

(***************************************************************************)
(* C3                                                                      *)
(***************************************************************************)
\* the state in which the last call starts its traversal
Started == [last.pre EXCEPT !.cur = last.expr, !.unknown = last.by]

\* a node as a rule appends it while the traversal is at the expression cur
Synthesized(node, cur) ==
    [node EXCEPT !.sp = SpanOf(last.pre, cur),
                 !.osp = IF node.k \in {"Negate", "BinaryOperator"}
                         THEN SpanOf(last.pre, cur) ELSE 0]

SynthesizedAll(nodes, cur) == [i \in 1..Len(nodes) |-> Synthesized(nodes[i], cur)]

\* the last call differentiates a real sum, diff, mul, div, pow or
\* conditional one of whose operands is a mod
C3_Case ==
    /\ Returned
    /\ last.expr.t = "Real"
    /\ LET n == NodeAt(last.pre, last.expr)
       IN /\ \/ n.k = "BinaryOperator"
                /\ n.op \in {"Sum", "Subtract", "Multiply", "Divide", "Exponent"}
             \/ n.k = "Condition"
          /\ \/ IsUndefinedOp("Real", last.pre.re[n.a])
             \/ IsUndefinedOp("Real", last.pre.re[n.b])

\* an operand: the offending one adds its error and has no derivative, the
\* other one is differentiated
C3_Operand(st, x) ==
    IF IsUndefinedOp("Real", st.re[x])
    THEN [st |-> [st EXCEPT !.errors = Append(@, [err |-> "DerivativeNotDefined",
                                                  reason |-> "Modulus",
                                                  sp |-> st.re[x].sp])],
          id |-> None]
    ELSE VisitRealExpr(st, x)

\* the nodes the rule of n appends after `base` nodes, and its result, when
\* the derivative of one operand (the left one if lhsNone) is None and the
\* derivative of the other one is d
C3_RuleWithNone(n, root, lhsNone, d, base) ==
    IF d = None THEN [nodes |-> <<>>, id |-> None]
    ELSE IF n.k = "Condition" THEN
        [nodes |-> <<Literal(0), IF lhsNone THEN Condition(n.c, base + 1, d)
                                 ELSE Condition(n.c, d, base + 1)>>,
         id |-> base + 2]
    ELSE CASE n.op = "Sum" -> [nodes |-> <<>>, id |-> d]
           [] n.op = "Subtract" ->
                IF lhsNone THEN [nodes |-> <<Negate(0, d)>>, id |-> base + 1]
                ELSE [nodes |-> <<>>, id |-> d]
           [] n.op = "Multiply" ->
                [nodes |-> <<IF lhsNone THEN BinaryOperator(n.a, "Multiply", 0, d)
                             ELSE BinaryOperator(d, "Multiply", 0, n.b)>>,
                 id |-> base + 1]
           [] n.op = "Divide" ->
                IF lhsNone
                THEN [nodes |-> <<Negate(0, d),
                                  BinaryOperator(n.a, "Multiply", 0, base + 1),
                                  BinaryOperator(n.b, "Multiply", 0, n.b),
                                  BinaryOperator(base + 2, "Divide", 0, base + 3)>>,
                      id |-> base + 4]
                ELSE [nodes |-> <<BinaryOperator(d, "Multiply", 0, n.b),
                                  BinaryOperator(n.b, "Multiply", 0, n.b),
                                  BinaryOperator(base + 1, "Divide", 0, base + 2)>>,
                      id |-> base + 3]
           [] n.op = "Exponent" ->
                [nodes |-> <<IF lhsNone THEN BuiltInFunctionCall1p("Ln", n.a)
                             ELSE BinaryOperator(n.b, "Divide", 0, n.a),
                             BinaryOperator(base + 1, "Multiply", 0, d),
                             BinaryOperator(base + 2, "Multiply", 0, root)>>,
                 id |-> base + 3]

\* C3: when an operand of a sum, diff, mul, div, pow or conditional emits
\* DerivativeNotDefined, the call still differentiates the other operand,
\* appends and returns exactly what the rule yields with the offending
\* derivative taken as None, and keeps every entry the sink already had
C3_ErrorsDoNotAbort ==
    C3_Case =>
        LET n == NodeAt(last.pre, last.expr)
            dl == C3_Operand(Started, n.a)
            dr == C3_Operand(dl.st, n.b)
            lhsNone == IsUndefinedOp("Real", last.pre.re[n.a])
            rule == C3_RuleWithNone(n, last.expr.id, lhsNone,
                                    IF lhsNone THEN dr.id ELSE dl.id, Len(dr.st.re))
            zero == IF rule.id = None THEN <<Literal(0)>> ELSE <<>>
        IN /\ real_expressions
                = dr.st.re \o SynthesizedAll(rule.nodes \o zero, last.expr)
           /\ integer_expressions = dr.st.ie
           /\ derivatives = dr.st.dv
           /\ errors = dr.st.errors
           /\ IsPrefix(last.pre.errors, errors)
           /\ Len(NewUndefined) >= 1
           /\ last.id = IF rule.id = None THEN Len(real_expressions) ELSE rule.id

\* (x mod 3) * v: the error of the mod is in the sink and the result is the
\* product of the mod node and the derivative of v
C3_Witness ==
    /\ C3_Case
    /\ NodeAt(last.pre, last.expr).op = "Multiply"
    /\ IsUndefinedOp("Real", last.pre.re[NodeAt(last.pre, last.expr).a])
    /\ Len(NewUndefined) = 1
    /\ last.id \in NewReal
    /\ real_expressions[last.id].op = "Multiply"
    /\ real_expressions[last.id].a = NodeAt(last.pre, last.expr).a
    /\ real_expressions[last.id].b \in NewReal

(***************************************************************************)
(* C4                                                                      *)
(***************************************************************************)
\* the node the i-th push of the last call appended
Pushed(i) == NodeAt(Now, last.log[i])

\* the number of nodes arena t held when the last call made its i-th push
HeldBefore(t, i) ==
    Len(IF t = "Real" THEN last.pre.re ELSE last.pre.ie)
    + Cardinality({j \in 1..(i - 1) : last.log[j].t = t})

\* I1 for the nodes of arena t
BackwardOnly(t, arena) ==
    \A i \in 1..Len(arena) :
        \A o \in OperandsOf(t, arena[i]) :
            /\ o.t = "Real" => o.id \in 1..Len(real_expressions)
            /\ o.t = "Integer" => o.id \in 1..Len(integer_expressions)
            /\ o.t = "String" => o.id \in 1..Len(string_expressions)
            /\ o.t = t => o.id < i

\* C4: after any sequence of calls every operand of a node refers to a
\* node of a smaller index in the same arena or to a node of the other
\* arena, and every operand of a node the differentiator appended refers to
\* a node that was in its arena when the containing node was pushed
C4_NoForwardReferences ==
    /\ BackwardOnly("Real", real_expressions)
    /\ BackwardOnly("Integer", integer_expressions)
    /\ \A i \in 1..Len(last.log) :
            /\ last.log[i].id = HeldBefore(last.log[i].t, i) + 1
            /\ \A o \in OperandsOf(last.log[i].t, Pushed(i)) :
                    o.t # "String" => o.id \in 1..HeldBefore(o.t, i)

\* the derivative of abs: a conditional over a comparison, a negation and
\* a derivative that the same call appended before it
C4_Witness ==
    /\ Returned
    /\ \E i \in 1..Len(last.log) :
            /\ last.log[i].t = "Real"
            /\ Pushed(i).k = "Condition"
            /\ Pushed(i).c \in NewInteger
            /\ Pushed(i).a \in NewReal
            /\ Pushed(i).b \in NewReal

(***************************************************************************)
(* C5                                                                      *)
(***************************************************************************)
\* C5: every step keeps each node of the real and of the integer arena at
\* its index with its variant, operands and span, and never shortens an
\* arena; all a call changes is that nodes, variables, entries of the
\* derivative table, errors and lints are appended (and that the program
\* may have ended in a panic)
C5_AppendOnly ==
    [][/\ IsPrefix(real_expressions, real_expressions')
       /\ IsPrefix(integer_expressions, integer_expressions')
       /\ string_expressions' = string_expressions
       /\ branches' = branches
       /\ IsPrefix(variables, variables')
       /\ IsPrefix(derivatives, derivatives')
       /\ IsPrefix(errors, errors')
       /\ IsPrefix(lints, lints')]_vars

\* a call that appended nodes, registered a derivative variable and added
\* an error, after which the nodes it started from are as they were
C5_Witness ==
    /\ Returned
    /\ NewReal # {}
    /\ Len(derivatives) > Len(last.pre.dv)
    /\ Len(variables) > Len(last.pre.vars)
    /\ Len(NewErrors) > 0
    /\ IsPrefix(last.pre.re, real_expressions)
    /\ IsPrefix(last.pre.ie, integer_expressions)

(***************************************************************************)
(* C6                                                                      *)
(***************************************************************************)
\* C6: every node a call on a real or integer expression e appends carries
\* the span of the input node the traversal was at when the node was made,
\* and that node is e or reachable from e; the literal 0.0 that stands for
\* the missing branch of a conditional carries the span of the conditional,
\* and the literal 0.0 returned for a structural zero carries the span of e
C6_SpanPreservation ==
    Called /\ Numeric =>
        /\ \A i \in 1..Len(last.log) :
                /\ last.log[i].cur \in Reachable(last.pre, last.expr)
                /\ Pushed(i).sp = SpanOf(last.pre, last.log[i].cur)
                /\ Pushed(i).k = "Literal" /\ Pushed(i).v = 0 /\ Pushed(i).sym = ""
                   /\ i < Len(last.log) /\ Pushed(i + 1).k = "Condition"
                   /\ NodeAt(last.pre, last.log[i].cur).k = "Condition"
                   => Pushed(i).sp = NodeAt(last.pre, last.log[i].cur).sp
        /\ Returned /\ real_expressions[last.id].k = "Literal"
           /\ real_expressions[last.id].v = 0 /\ real_expressions[last.id].sym = ""
           => real_expressions[last.id].sp = SpanOf(last.pre, last.expr)

\* a conditional with one branch without a derivative: the derivative of
\* the other branch carries the span of that branch, the literal 0.0 and
\* the new conditional carry the span of the conditional
C6_Witness ==
    /\ Returned
    /\ Numeric
    /\ NodeAt(last.pre, last.expr).k = "Condition"
    /\ \E i \in 2..(Len(last.log) - 1) :
            /\ last.log[i - 1].cur # last.expr
            /\ Pushed(i - 1).sp # SpanOf(last.pre, last.expr)
            /\ Pushed(i).k = "Literal" /\ Pushed(i).v = 0
            /\ Pushed(i).sp = SpanOf(last.pre, last.expr)
            /\ Pushed(i + 1).k = "Condition"
            /\ Pushed(i + 1).sp = SpanOf(last.pre, last.expr)

(***************************************************************************)
(* C7                                                                      *)
(***************************************************************************)
\* C7: the derivative table holds one entry for a pair (variable, unknown)
\* and one pair for a derivative variable, a call keeps the entries the
\* table had, and whenever the traversal differentiates a variable
\* reference, real or integer, it appends a real variable reference to the
\* derivative variable the table holds for that variable and the unknown
C7_Interning ==
    /\ \A i, j \in 1..Len(derivatives) :
            i # j =>
                /\ derivatives[i].var # derivatives[j].var
                   \/ derivatives[i].by # derivatives[j].by
                /\ derivatives[i].dvar # derivatives[j].dvar
    /\ \A i \in 1..Len(derivatives) : derivatives[i].dvar \in 1..Len(variables)
    /\ Called => IsPrefix(last.pre.dv, derivatives)
    /\ Called /\ Numeric =>
            \A i \in 1..Len(last.log) :
                NodeAt(last.pre, last.log[i].cur).k = "VariableReference" =>
                    /\ last.log[i].t = "Real"
                    /\ Pushed(i).k = "VariableReference"
                    /\ \E j \in 1..Len(derivatives) :
                            derivatives[j]
                                = [var |-> NodeAt(last.pre, last.log[i].cur).v,
                                   by |-> last.by, dvar |-> Pushed(i).v]
    /\ Returned /\ Numeric /\ NodeAt(last.pre, last.expr).k = "VariableReference" =>
            /\ Len(last.log) = 1
            /\ last.id \in NewReal

\* the second call for a pair: the table is as it was and the new node
\* names the derivative variable the first call registered
C7_Witness ==
    /\ Returned
    /\ Numeric
    /\ NodeAt(last.pre, last.expr).k = "VariableReference"
    /\ last.pre.dv # <<>>
    /\ derivatives = last.pre.dv
    /\ last.id \in NewReal
    /\ \E j \in 1..Len(last.pre.dv) :
            /\ last.pre.dv[j].var = NodeAt(last.pre, last.expr).v
            /\ last.pre.dv[j].by = last.by
            /\ real_expressions[last.id].v = last.pre.dv[j].dvar

(***************************************************************************)
(* C8                                                                      *)
(***************************************************************************)
\* the last call differentiates a real binary operation with operator op
RootIs(op) ==
    /\ Returned
    /\ last.expr.t = "Real"
    /\ NodeAt(last.pre, last.expr).k = "BinaryOperator"
    /\ NodeAt(last.pre, last.expr).op = op

\* what the call leaves when, after the derivatives of both operands (the
\* state db.st), the rule appends `nodes` and yields id (None: the entry
\* point appends the literal 0.0 and returns it)
Leaves(db, nodes, id) ==
    /\ real_expressions
        = db.st.re \o SynthesizedAll(IF id = None THEN <<Literal(0)>> ELSE nodes, last.expr)
    /\ integer_expressions = db.st.ie
    /\ errors = db.st.errors
    /\ last.id = IF id = None THEN Len(real_expressions) ELSE id

\* C8: the derivative of a * b is D(a)*b + a*D(b) when both derivatives are
\* Some, the single node D(a)*b when D(b) is None, the single node a*D(b)
\* when D(a) is None, with no Sum node and no literal 0.0 appended for the
\* product; and None when both are None
C8_SparseProduct ==
    RootIs("Multiply") =>
        LET n == NodeAt(last.pre, last.expr)
            da == VisitRealExpr(Started, n.a)
            db == VisitRealExpr(da.st, n.b)
            base == Len(db.st.re)
        IN IF da.id # None /\ db.id # None
           THEN Leaves(db, <<BinaryOperator(da.id, "Multiply", 0, n.b),
                             BinaryOperator(n.a, "Multiply", 0, db.id),
                             BinaryOperator(base + 1, "Sum", 0, base + 2)>>, base + 3)
           ELSE IF da.id # None
           THEN Leaves(db, <<BinaryOperator(da.id, "Multiply", 0, n.b)>>, base + 1)
           ELSE IF db.id # None
           THEN Leaves(db, <<BinaryOperator(n.a, "Multiply", 0, db.id)>>, base + 1)
           ELSE Leaves(db, <<>>, None)

\* p * 3 by p: the literal 1.0 for D(p), then the one node D(p) * 3
C8_Witness ==
    /\ RootIs("Multiply")
    /\ real_expressions[last.id].k = "BinaryOperator"
    /\ real_expressions[last.id].op = "Multiply"
    /\ real_expressions[last.id].a \in NewReal
    /\ real_expressions[last.id].b = NodeAt(last.pre, last.expr).b
    /\ \A i \in NewReal :
            /\ ~(real_expressions[i].k = "BinaryOperator" /\ real_expressions[i].op = "Sum")
            /\ ~(real_expressions[i].k = "Literal" /\ real_expressions[i].v = 0)

(***************************************************************************)
(* C9                                                                      *)
(***************************************************************************)
\* C9 for a sum: Sum(D(a), D(b)) when both derivatives are Some, the id of
\* the other derivative itself and no new node when one is None, None when
\* both are
C9_SumElision ==
    RootIs("Sum") =>
        LET n == NodeAt(last.pre, last.expr)
            da == VisitRealExpr(Started, n.a)
            db == VisitRealExpr(da.st, n.b)
            base == Len(db.st.re)
        IN IF da.id # None /\ db.id # None
           THEN Leaves(db, <<BinaryOperator(da.id, "Sum", 0, db.id)>>, base + 1)
           ELSE IF da.id # None THEN Leaves(db, <<>>, da.id)
           ELSE IF db.id # None THEN Leaves(db, <<>>, db.id)
           ELSE Leaves(db, <<>>, None)

\* C9 for a difference: the same with Negate(D(b)) in the place of D(b)
C9_DiffElision ==
    RootIs("Subtract") =>
        LET n == NodeAt(last.pre, last.expr)
            da == VisitRealExpr(Started, n.a)
            db == VisitRealExpr(da.st, n.b)
            base == Len(db.st.re)
        IN IF da.id # None /\ db.id # None
           THEN Leaves(db, <<Negate(0, db.id),
                             BinaryOperator(da.id, "Sum", 0, base + 1)>>, base + 2)
           ELSE IF da.id # None THEN Leaves(db, <<>>, da.id)
           ELSE IF db.id # None THEN Leaves(db, <<Negate(0, db.id)>>, base + 1)
           ELSE Leaves(db, <<>>, None)

\* C9: sum and difference elide the derivatives that are None
C9_SumDiffElision == C9_SumElision /\ C9_DiffElision

\* 3 - p by p: the literal 1.0 for D(p), then Negate(D(p)), and no Sum
C9_Witness ==
    /\ RootIs("Subtract")
    /\ real_expressions[last.id].k = "Negate"
    /\ real_expressions[last.id].a \in NewReal
    /\ real_expressions[real_expressions[last.id].a].k = "Literal"
    /\ real_expressions[real_expressions[last.id].a].v = 1
    /\ \A i \in NewReal :
            ~(real_expressions[i].k = "BinaryOperator" /\ real_expressions[i].op = "Sum")

(***************************************************************************)
(* C10                                                                     *)
(***************************************************************************)
\* the values the parameters 1 and 2 take
ParameterValues == {-2, 0, 1, 5}
Environments == [1..2 -> ParameterValues]

\* built from literals, parameter references, sum, diff, mul and negate
RECURSIVE IsPolynomial(_, _)
IsPolynomial(re, id) ==
    LET n == re[id]
    IN \/ n.k = "Literal" /\ n.sym = ""
       \/ n.k = "ParameterReference"
       \/ n.k = "Negate" /\ IsPolynomial(re, n.a)
       \/ /\ n.k = "BinaryOperator"
          /\ n.op \in {"Sum", "Subtract", "Multiply"}
          /\ IsPolynomial(re, n.a)
          /\ IsPolynomial(re, n.b)

\* the value of the expression id where the parameters have the values env
RECURSIVE Eval(_, _, _)
Eval(re, id, env) ==
    LET n == re[id]
    IN CASE n.k = "Literal" -> n.v
         [] n.k = "ParameterReference" -> env[n.v]
         [] n.k = "Negate" -> 0 - Eval(re, n.a, env)
         [] n.k = "BinaryOperator" /\ n.op = "Sum" ->
                Eval(re, n.a, env) + Eval(re, n.b, env)
         [] n.k = "BinaryOperator" /\ n.op = "Subtract" ->
                Eval(re, n.a, env) - Eval(re, n.b, env)
         [] n.k = "BinaryOperator" /\ n.op = "Multiply" ->
                Eval(re, n.a, env) * Eval(re, n.b, env)

\* polynomials in x as the sequence of the coefficients of x^0 .. x^MaxDegree
Degrees == 1..(MaxDegree + 1)
PolyConst(c) == [i \in Degrees |-> IF i = 1 THEN c ELSE 0]
PolyX == [i \in Degrees |-> IF i = 2 THEN 1 ELSE 0]
PolyAdd(f, g) == [i \in Degrees |-> f[i] + g[i]]
PolySub(f, g) == [i \in Degrees |-> f[i] - g[i]]
RECURSIVE Convolve(_, _, _, _)
Convolve(f, g, i, j) ==
    IF j > i THEN 0 ELSE f[j] * g[i - j + 1] + Convolve(f, g, i, j + 1)
PolyMul(f, g) == [i \in Degrees |-> Convolve(f, g, i, 1)]
PolyDerive(f) == [i \in Degrees |-> IF i <= MaxDegree THEN i * f[i + 1] ELSE 0]
RECURSIVE Horner(_, _, _)
Horner(f, x, i) == IF i > MaxDegree + 1 THEN 0 ELSE f[i] + x * Horner(f, x, i + 1)
PolyAt(f, x) == Horner(f, x, 1)

\* the expression id as a polynomial in the parameter p, the other
\* parameter being the constant env gives it
RECURSIVE Coefficients(_, _, _, _)
Coefficients(re, id, p, env) ==
    LET n == re[id]
    IN CASE n.k = "Literal" -> PolyConst(n.v)
         [] n.k = "ParameterReference" -> IF n.v = p THEN PolyX ELSE PolyConst(env[n.v])
         [] n.k = "Negate" -> PolySub(PolyConst(0), Coefficients(re, n.a, p, env))
         [] n.k = "BinaryOperator" /\ n.op = "Sum" ->
                PolyAdd(Coefficients(re, n.a, p, env), Coefficients(re, n.b, p, env))
         [] n.k = "BinaryOperator" /\ n.op = "Subtract" ->
                PolySub(Coefficients(re, n.a, p, env), Coefficients(re, n.b, p, env))
         [] n.k = "BinaryOperator" /\ n.op = "Multiply" ->
                PolyMul(Coefficients(re, n.a, p, env), Coefficients(re, n.b, p, env))

\* the last call differentiated a polynomial by a parameter
C10_Case ==
    /\ Returned
    /\ last.expr.t = "Real"
    /\ last.by.t = "Parameter"
    /\ IsPolynomial(last.pre.re, last.expr.id)

\* C10: the expression returned for a polynomial e and the unknown
\* Parameter(p) has, at every value of the parameters, the value of the
\* derivative of e by p; another parameter is a constant
C10_PolynomialDerivative ==
    C10_Case =>
        \A env \in Environments :
            Eval(real_expressions, last.id, env)
                = PolyAt(PolyDerive(Coefficients(last.pre.re, last.expr.id, last.by.id, env)),
                         env[last.by.id])

\* x*x + 2*x + 1 by x: the result has the value 12 at x = 5
C10_Witness ==
    /\ C10_Case
    /\ last.by = UParameter(1)
    /\ \A env \in Environments :
            Coefficients(last.pre.re, last.expr.id, 1, env)
                = <<1, 2, 1>> \o [i \in 1..(MaxDegree - 2) |-> 0]
    /\ \A env \in Environments : env[1] = 5 => Eval(real_expressions, last.id, env) = 12

(***************************************************************************)
(* C11                                                                     *)
(***************************************************************************)
\* the last call differentiates a real two-argument call of `call`
RootCalls(call) ==
    /\ Returned
    /\ last.expr.t = "Real"
    /\ NodeAt(last.pre, last.expr).k = "BuiltInFunctionCall2p"
    /\ NodeAt(last.pre, last.expr).op = call

\* the hypot rule where the derivative of the first argument is multiplied
\* by x and the derivative of the second one by y: both terms, their sum and
\* the quotient by the input node; one term and the quotient when the other
\* derivative is None; nothing when both are
HypotRule(x, y) ==
    LET n == NodeAt(last.pre, last.expr)
        da == VisitRealExpr(Started, n.a)
        db == VisitRealExpr(da.st, n.b)
        base == Len(db.st.re)
    IN IF da.id # None /\ db.id # None
       THEN Leaves(db, <<BinaryOperator(da.id, "Multiply", 0, x),
                         BinaryOperator(y, "Multiply", 0, db.id),
                         BinaryOperator(base + 1, "Sum", 0, base + 2),
                         BinaryOperator(base + 3, "Divide", 0, last.expr.id)>>, base + 4)
       ELSE IF da.id # None
       THEN Leaves(db, <<BinaryOperator(da.id, "Multiply", 0, x),
                         BinaryOperator(base + 1, "Divide", 0, last.expr.id)>>, base + 2)
       ELSE IF db.id # None
       THEN Leaves(db, <<BinaryOperator(y, "Multiply", 0, db.id),
                         BinaryOperator(base + 1, "Divide", 0, last.expr.id)>>, base + 2)
       ELSE Leaves(db, <<>>, None)

\* C11 as stated: the derivative of hypot(a, b) is (D(a)*b + a*D(b)) divided
\* by the input hypot node
C11_HypotCrossTerms ==
    RootCalls("Hypot") =>
        HypotRule(NodeAt(last.pre, last.expr).b, NodeAt(last.pre, last.expr).a)

\* C11 amended: the derivative of hypot(a, b) is (D(a)*a + b*D(b)) divided
\* by the id of the input hypot node itself; a term is elided when its D is
\* None and the result is None when both are
C11_HypotOwnTerms ==
    RootCalls("Hypot") =>
        HypotRule(NodeAt(last.pre, last.expr).a, NodeAt(last.pre, last.expr).b)

\* hypot(p, v) by p: D(p)*p + v*D(v) over the input node
C11_Witness ==
    /\ RootCalls("Hypot")
    /\ NodeAt(last.pre, last.expr).a # NodeAt(last.pre, last.expr).b
    /\ real_expressions[last.id].op = "Divide"
    /\ real_expressions[last.id].b = last.expr.id
    /\ LET sum == real_expressions[real_expressions[last.id].a]
       IN /\ sum.op = "Sum"
          /\ real_expressions[sum.a].op = "Multiply"
          /\ real_expressions[sum.a].a \in NewReal
          /\ real_expressions[sum.a].b = NodeAt(last.pre, last.expr).a
          /\ real_expressions[sum.b].op = "Multiply"
          /\ real_expressions[sum.b].a = NodeAt(last.pre, last.expr).b
          /\ real_expressions[sum.b].b \in NewReal

(***************************************************************************)
(* C12                                                                     *)
(***************************************************************************)
\* the last call differentiates a branch access by the unknown kind `by`
RootAccess(by) ==
    /\ Returned
    /\ last.expr.t = "Real"
    /\ NodeAt(last.pre, last.expr).k = "BranchAccess"
    /\ last.by.t = by

\* the call appended the one literal val and returned it
LeavesLiteral(val) == Leaves([st |-> Started], <<Literal(val)>>, Len(last.pre.re) + 1)

\* the rule yielded None: the entry point appended the literal 0.0
LeavesNone == Leaves([st |-> Started], <<>>, None)

\* C12: by NodePotential(n) the derivative of branch-access(acc, b, order)
\* is the literal +1.0 if acc is Potential and b is Nets(u, l) with u = n,
\* the literal -1.0 if acc is Potential and l = n and u # n, and None in
\* every other case: every Flow access, every Port branch
C12_PotentialByNode ==
    RootAccess("NodePotential") =>
        LET n == NodeAt(last.pre, last.expr)
            br == branches[n.v]
        IN IF n.op = "Potential" /\ br.t = "Nets" /\ br.u = last.by.id
           THEN LeavesLiteral(1)
           ELSE IF n.op = "Potential" /\ br.t = "Nets" /\ br.l = last.by.id
           THEN LeavesLiteral(-1)
           ELSE LeavesNone

(***************************************************************************)
(* C13                                                                     *)
(***************************************************************************)
\* C13: by Time every call on branch-access(acc, b, order), the order being
\* any value of the u8 field and the access an input or the result of an
\* earlier call, returns a new branch access with the same acc and b and the
\* order order + 1, never a smaller one
C13_OrderIncrement ==
    /\ Called
    /\ last.expr.t = "Real"
    /\ NodeAt(last.pre, last.expr).k = "BranchAccess"
    /\ last.by = UTime
    => /\ aborted = ""
       /\ LET n == NodeAt(last.pre, last.expr)
          IN Leaves([st |-> Started], <<BranchAccess(n.op, n.v, n.ord + 1)>>,
                    Len(last.pre.re) + 1)

(***************************************************************************)
(* C14                                                                     *)
(***************************************************************************)
\* C14: a call on a string expression adds the one error
\* OnlyNumericExpressionsCanBeDerived with the span of the string
\* expression, appends the one node literal 0.0 with the dummy span to the
\* real arena and returns its id; it traverses nothing, appends nothing to
\* the integer arena and registers no derivative variable
C14_StringPlaceholder ==
    Called /\ last.expr.t = "String" =>
        /\ aborted = ""
        /\ errors = Append(last.pre.errors,
                           [err |-> "OnlyNumericExpressionsCanBeDerived", reason |-> "",
                            sp |-> string_expressions[last.expr.id].sp])
        /\ real_expressions = Append(last.pre.re, NodeNew(Literal(0), DUMMY_SP))
        /\ last.id = Len(last.pre.re) + 1
        /\ last.log = <<[t |-> "Real", id |-> last.id, cur |-> last.expr]>>
        /\ integer_expressions = last.pre.ie
        /\ variables = last.pre.vars
        /\ derivatives = last.pre.dv
        /\ lints = last.pre.lints

\* a string expression differentiated: the placeholder is the last node of
\* the real arena and its span is not the span of the string expression
C14_Witness ==
    /\ Returned
    /\ last.expr.t = "String"
    /\ last.id = Len(real_expressions)
    /\ real_expressions[last.id].k = "Literal"
    /\ real_expressions[last.id].sp = DUMMY_SP
    /\ string_expressions[last.expr.id].sp # DUMMY_SP
    /\ Len(NewErrors) = 1

(***************************************************************************)
(* C15                                                                     *)
(***************************************************************************)
\* what the differentiator yields for the expression of the last call
Differentiated ==
    IF last.expr.t = "Real" THEN VisitRealExpr(Started, last.expr.id)
    ELSE VisitIntegerExpr(Started, last.expr.id)

\* an input whose derivative is a structural zero whatever it is made of
StructuralZero ==
    LET n == NodeAt(last.pre, last.expr)
    IN \/ n.k \in {"Literal", "Noise", "SimParam", "PortConnected", "ParamGiven"}
       \/ n.k = "ParameterReference" /\ last.by # UParameter(n.v)

\* C15: when the real or integer differentiator yields None for the input
\* (as it does for a literal, a non-matching parameter, noise, sim-param,
\* port-connected and param-given), the call appends a literal 0.0 after
\* everything else and returns its id: a node the arena did not hold before
\* the call, not a zero shared with an earlier call, whose value is 0
C15_FreshZero ==
    Returned /\ Numeric =>
        /\ StructuralZero => Differentiated.id = None /\ Len(last.log) = 1
        /\ Differentiated.id = None =>
            /\ real_expressions
                = Append(Differentiated.st.re, Synthesized(Literal(0), last.expr))
            /\ last.id = Len(real_expressions)
            /\ last.id \notin 1..Len(last.pre.re)
            /\ \A env \in Environments : Eval(real_expressions, last.id, env) = 0

\* the second of two calls on literals: a second literal 0.0, not the first
C15_Witness ==
    /\ Returned
    /\ Numeric
    /\ calls = 2
    /\ StructuralZero
    /\ last.id = Len(real_expressions)
    /\ real_expressions[last.id].k = "Literal"
    /\ real_expressions[last.id].v = 0
    /\ real_expressions[last.id - 1].k = "Literal"
    /\ real_expressions[last.id - 1].v = 0
    /\ last.id - 1 \notin 1..Len(RealBase)

(***************************************************************************)
(* C16                                                                     *)
(***************************************************************************)
\* the reason an operator without a derivative is reported with
UndefinedReason(t, n) ==
    IF n.k \in {"IntegerComparison", "RealComparison", "StringEq", "StringNEq"}
    THEN "Comparison"
    ELSE IF n.op = "Modulus" THEN "Modulus"
    ELSE IF n.op \in {"LogicAnd", "LogicOr", "LogicNegate"} THEN "LogicOp"
    ELSE "BitWiseOp"

\* the diagnostics of a traversal from e in the order of their emission,
\* where the operands of a node are visited in the order the rule visits
\* them (asVisited) or always the left one first
RECURSIVE Diagnostics(_, _, _)
Diagnostics(m, e, asVisited) ==
    LET n == NodeAt(m, e)
        visited == TraversedOf(e.t, n)
        tr == IF asVisited \/ Len(visited) < 2 THEN visited
              ELSE IF visited[1].id = n.a THEN visited ELSE <<visited[2], visited[1]>>
    IN (IF IsUndefinedOp(e.t, n)
        THEN <<[err |-> "DerivativeNotDefined", reason |-> UndefinedReason(e.t, n),
                sp |-> n.sp]>>
        ELSE <<>>)
       \o (IF Len(tr) >= 1 THEN Diagnostics(m, tr[1], asVisited) ELSE <<>>)
       \o (IF Len(tr) >= 2 THEN Diagnostics(m, tr[2], asVisited) ELSE <<>>)

\* the sink after the last call holds, after what it held, the diagnostics
\* `expected`, or the first of them if the call ended in a panic
Emitted(expected) ==
    IF aborted = "" THEN NewUndefined = expected ELSE IsPrefix(NewUndefined, expected)

\* C16 as stated: at every binary operator, shifts included, the
\* diagnostics of the left operand precede those of the right operand, and
\* at a conditional those of the then-branch precede those of the else-branch
C16_LeftToRight ==
    Called /\ Numeric => Emitted(Diagnostics(last.pre, last.expr, FALSE))

\* C16 amended: the diagnostics are emitted in the order of the traversal:
\* left operand before right operand at every binary operator but the
\* shifts, right operand before left operand at shift-left and shift-right,
\* then-branch before else-branch at a conditional
C16_TraversalOrder ==
    Called /\ Numeric => Emitted(Diagnostics(last.pre, last.expr, TRUE))

\* (2 ^ n) << (x < 3): the comparison is reported before the xor
C16_Witness ==
    /\ Returned
    /\ last.expr.t = "Integer"
    /\ LET n == NodeAt(last.pre, last.expr)
       IN /\ n.k = "BinaryOperator"
          /\ n.op \in {"ShiftLeft", "ShiftRight"}
          /\ n.a # n.b
          /\ Len(NewUndefined) = 2
          /\ NewUndefined[1].sp = last.pre.ie[n.b].sp
          /\ NewUndefined[2].sp = last.pre.ie[n.a].sp

(***************************************************************************)
(* C17                                                                     *)
(***************************************************************************)
\* the number of times the traversal from e arrives at the node c
RECURSIVE VisitsOf(_, _, _)
VisitsOf(m, e, c) ==
    LET tr == TraversedOf(e.t, NodeAt(m, e))
    IN (IF e = c THEN 1 ELSE 0)
       + (IF Len(tr) >= 1 THEN VisitsOf(m, tr[1], c) ELSE 0)
       + (IF Len(tr) >= 2 THEN VisitsOf(m, tr[2], c) ELSE 0)

\* the number of nodes the traversal from e arrives at, a node counted once
\* for every operand position that leads to it
RECURSIVE Visits(_, _)
Visits(m, e) ==
    LET tr == TraversedOf(e.t, NodeAt(m, e))
    IN 1 + (IF Len(tr) >= 1 THEN Visits(m, tr[1]) ELSE 0)
         + (IF Len(tr) >= 2 THEN Visits(m, tr[2]) ELSE 0)

\* the pushes the last call made while the traversal was at the node c
PushesAt(c) == {i \in 1..Len(last.log) : last.log[i].cur = c}

\* C17 as stated, with the largest number of nodes one rule appends as the
\* constant: a call appends at most 9 * n nodes, n the number of distinct
\* nodes reachable from the input
C17_LinearInDistinctNodes ==
    Called /\ Numeric =>
        Len(last.log) <= 9 * Cardinality(Reachable(last.pre, last.expr))

\* C17 amended: a call ends after appending at most 9 nodes for each
\* arrival of its traversal at a node, so at most 9 * v nodes, v the number
\* of arrivals; a node used as several operands is arrived at, and
\* differentiated, once for every use
C17_LinearInVisits ==
    Called /\ Numeric =>
        /\ \A i \in 1..Len(last.log) :
                Cardinality(PushesAt(last.log[i].cur))
                    <= 9 * VisitsOf(last.pre, last.expr, last.log[i].cur)
        /\ Len(last.log) <= 9 * Visits(last.pre, last.expr)

\* x^16 as four squarings: 5 distinct nodes, 31 arrivals, 61 nodes appended
C17_Witness ==
    /\ Returned
    /\ last.expr.t = "Real"
    /\ Cardinality(Reachable(last.pre, last.expr)) = 5
    /\ Visits(last.pre, last.expr) = 31
    /\ Len(last.log) = 61

(***************************************************************************)
(* C18                                                                     *)
(***************************************************************************)
\* the last call differentiates a real pow, the binary operator or the
\* two-argument call
RootIsPow ==
    /\ Returned
    /\ last.expr.t = "Real"
    /\ LET n == NodeAt(last.pre, last.expr)
       IN \/ n.k = "BinaryOperator" /\ n.op = "Exponent"
          \/ n.k = "BuiltInFunctionCall2p" /\ n.op = "Pow"

\* the nodes the last call appended that multiply by the node id
MultiplicationsBy(id) ==
    {i \in NewReal : /\ real_expressions[i].k = "BinaryOperator"
                     /\ real_expressions[i].op = "Multiply"
                     /\ id \in {real_expressions[i].a, real_expressions[i].b}}

\* C18: the derivative of pow(a, b), binary or builtin2, is
\* Multiply(sum, o), o the id of the input pow node itself and
\* sum = (b/a)*D(a) + ln(a)*D(b); the term of a derivative that is None is
\* not built (no b/a node, no ln node), the sum of one term is the term,
\* the output has exactly one multiplication by the input pow node, and
\* the result is None when both derivatives are
C18_PowerRule ==
    RootIsPow =>
        LET n == NodeAt(last.pre, last.expr)
            o == last.expr.id
            da == VisitRealExpr(Started, n.a)
            db == VisitRealExpr(da.st, n.b)
            base == Len(db.st.re)
        IN /\ IF da.id # None /\ db.id # None
              THEN Leaves(db, <<BinaryOperator(n.b, "Divide", 0, n.a),
                                BinaryOperator(base + 1, "Multiply", 0, da.id),
                                BuiltInFunctionCall1p("Ln", n.a),
                                BinaryOperator(base + 3, "Multiply", 0, db.id),
                                BinaryOperator(base + 2, "Sum", 0, base + 4),
                                BinaryOperator(base + 5, "Multiply", 0, o)>>, base + 6)
              ELSE IF da.id # None
              THEN Leaves(db, <<BinaryOperator(n.b, "Divide", 0, n.a),
                                BinaryOperator(base + 1, "Multiply", 0, da.id),
                                BinaryOperator(base + 2, "Multiply", 0, o)>>, base + 3)
              ELSE IF db.id # None
              THEN Leaves(db, <<BuiltInFunctionCall1p("Ln", n.a),
                                BinaryOperator(base + 1, "Multiply", 0, db.id),
                                BinaryOperator(base + 2, "Multiply", 0, o)>>, base + 3)
              ELSE Leaves(db, <<>>, None)
           /\ MultiplicationsBy(o)
                = IF da.id = None /\ db.id = None THEN {} ELSE {last.id}

\* pow(p, 3) by p: (3/p)*D(p) times the input node, and no ln node
C18_Witness ==
    /\ RootIsPow
    /\ NodeAt(last.pre, last.expr).k = "BuiltInFunctionCall2p"
    /\ real_expressions[last.id].op = "Multiply"
    /\ real_expressions[last.id].b = last.expr.id
    /\ real_expressions[real_expressions[last.id].a].op = "Multiply"
    /\ real_expressions[real_expressions[real_expressions[last.id].a].a].op = "Divide"
    /\ \A i \in NewReal : real_expressions[i].op # "Ln"
    /\ MultiplicationsBy(last.expr.id) = {last.id}

(***************************************************************************)
(* C19                                                                     *)
(***************************************************************************)
\* C19: the derivative of the real a / b is Divide(num, den) with
\* num = D(a)*b + a*Negate(D(b)), a term being left out when its derivative
\* is None, and den = b*b over the input id b; when D(a) and D(b) are both
\* None the result is None and no denominator is appended
C19_QuotientRule ==
    RootIs("Divide") =>
        LET n == NodeAt(last.pre, last.expr)
            da == VisitRealExpr(Started, n.a)
            db == VisitRealExpr(da.st, n.b)
            base == Len(db.st.re)
        IN IF da.id # None /\ db.id # None
           THEN Leaves(db, <<Negate(0, db.id),
                             BinaryOperator(da.id, "Multiply", 0, n.b),
                             BinaryOperator(n.a, "Multiply", 0, base + 1),
                             BinaryOperator(base + 2, "Sum", 0, base + 3),
                             BinaryOperator(n.b, "Multiply", 0, n.b),
                             BinaryOperator(base + 4, "Divide", 0, base + 5)>>, base + 6)
           ELSE IF da.id # None
           THEN Leaves(db, <<BinaryOperator(da.id, "Multiply", 0, n.b),
                             BinaryOperator(n.b, "Multiply", 0, n.b),
                             BinaryOperator(base + 1, "Divide", 0, base + 2)>>, base + 3)
           ELSE IF db.id # None
           THEN Leaves(db, <<Negate(0, db.id),
                             BinaryOperator(n.a, "Multiply", 0, base + 1),
                             BinaryOperator(n.b, "Multiply", 0, n.b),
                             BinaryOperator(base + 2, "Divide", 0, base + 3)>>, base + 4)
           ELSE /\ Leaves(db, <<>>, None)
                /\ \A i \in NewReal : real_expressions[i].k = "Literal"

\* p / v by p: (D(p)*v + p*Negate(D(v))) / (v*v)
C19_Witness ==
    /\ RootIs("Divide")
    /\ LET n == NodeAt(last.pre, last.expr)
           q == real_expressions[last.id]
       IN /\ n.a # n.b
          /\ q.op = "Divide"
          /\ real_expressions[q.b] = Synthesized(BinaryOperator(n.b, "Multiply", 0, n.b),
                                                 last.expr)
          /\ real_expressions[q.a].op = "Sum"
          /\ real_expressions[real_expressions[q.a].a].b = n.b
          /\ real_expressions[real_expressions[q.a].b].a = n.a
          /\ real_expressions[real_expressions[real_expressions[q.a].b].b].k = "Negate"

(***************************************************************************)
(* C20                                                                     *)
(***************************************************************************)
\* the last call differentiates a conditional, real or integer
RootIsCondition ==
    /\ Returned
    /\ Numeric
    /\ NodeAt(last.pre, last.expr).k = "Condition"

\* the derivative of the branch x of the conditional of the last call
BranchDerivative(st, x) ==
    IF last.expr.t = "Real" THEN VisitRealExpr(st, x) ELSE VisitIntegerExpr(st, x)

\* C20: the derivative of condition(c, t, e), real or integer, is None when
\* D(t) and D(e) are None, and otherwise one real Condition node over the
\* same id c with D(t) and D(e) as its branches in that order, a literal
\* 0.0 appended in the place of a branch that is None; the call leaves the
\* arenas, the sink, the variables and the derivative table as the
\* traversal of t and then e leaves them, so c is never traversed and what
\* it holds yields no diagnostics and no derivative variables
C20_ConditionalRule ==
    RootIsCondition =>
        LET n == NodeAt(last.pre, last.expr)
            dt == BranchDerivative(Started, n.a)
            de == BranchDerivative(dt.st, n.b)
            base == Len(de.st.re)
        IN /\ IF dt.id # None /\ de.id # None
              THEN Leaves(de, <<Condition(n.c, dt.id, de.id)>>, base + 1)
              ELSE IF dt.id # None
              THEN Leaves(de, <<Literal(0), Condition(n.c, dt.id, base + 1)>>, base + 2)
              ELSE IF de.id # None
              THEN Leaves(de, <<Literal(0), Condition(n.c, base + 1, de.id)>>, base + 2)
              ELSE Leaves(de, <<>>, None)
           /\ derivatives = de.st.dv
           /\ variables = de.st.vars
           /\ lints = de.st.lints

\* if (n < 2) p else 2 by p: Condition(c, D(p), 0.0); the comparison and the
\* variable of c add no error and no derivative variable
C20_Witness ==
    /\ RootIsCondition
    /\ last.expr.t = "Integer"
    /\ LET n == NodeAt(last.pre, last.expr)
           d == real_expressions[last.id]
       IN /\ last.pre.ie[n.c].k = "IntegerComparison"
          /\ last.pre.ie[last.pre.ie[n.c].a].k = "VariableReference"
          /\ d.k = "Condition"
          /\ d.c = n.c
          /\ real_expressions[d.a].v = 1
          /\ real_expressions[d.b].v = 0
          /\ d.b = last.id - 1
          /\ NewErrors = <<>>
          /\ derivatives = <<>>

(***************************************************************************)
(* C21                                                                     *)
(***************************************************************************)
\* the last call differentiates an abs, the real call or the integer variant
RootIsAbs ==
    /\ Returned
    /\ Numeric
    /\ LET n == NodeAt(last.pre, last.expr)
       IN IF last.expr.t = "Real" THEN n.k = "BuiltInFunctionCall1p" /\ n.op = "Abs"
          ELSE n.k = "Abs"

\* a less-than comparison as a rule appends it at the expression of the
\* last call
Comparison(kind, lhs, rhs) ==
    [E0 EXCEPT !.k = kind, !.op = "LessThen", !.a = lhs, !.b = rhs,
               !.sp = SpanOf(last.pre, last.expr), !.osp = SpanOf(last.pre, last.expr)]

\* the state in which an abs rule differentiates its argument: the literal
\* zero and the comparison of the argument f with it are appended, the zero
\* to the real arena for a real abs and to the integer arena for an integer
\* abs, the comparison to the integer arena
AbsCompared ==
    LET f == NodeAt(last.pre, last.expr).a
        zero == Synthesized(Literal(0), last.expr)
    IN IF last.expr.t = "Real"
       THEN [Started EXCEPT
                !.re = Append(@, zero),
                !.ie = Append(@, Comparison("RealComparison", f, Len(last.pre.re) + 1))]
       ELSE [Started EXCEPT
                !.ie = @ \o <<zero,
                              Comparison("IntegerComparison", f, Len(last.pre.ie) + 1)>>]

\* C21: with D(f) = d the derivative of abs(f) is Condition(f < 0, Negate(d), d),
\* the condition being a comparison the rule appends to the integer arena:
\* a real less-than comparison of the input id f with a new real literal 0.0
\* for a real abs, an integer less-than comparison of f with a new integer
\* literal 0 for an integer abs; with D(f) = None the result is None
C21_AbsRule ==
    RootIsAbs =>
        LET f == NodeAt(last.pre, last.expr).a
            d == IF last.expr.t = "Real" THEN VisitRealExpr(AbsCompared, f)
                 ELSE VisitIntegerExpr(AbsCompared, f)
            base == Len(d.st.re)
        IN IF d.id # None
           THEN Leaves(d, <<Negate(0, d.id),
                            Condition(Len(AbsCompared.ie), base + 1, d.id)>>, base + 2)
           ELSE Leaves(d, <<>>, None)

\* abs(p) by p, p real: Condition(p < 0.0, Negate(1.0), 1.0)
C21_Witness ==
    /\ RootIsAbs
    /\ last.expr.t = "Real"
    /\ LET f == NodeAt(last.pre, last.expr).a
           r == real_expressions[last.id]
       IN /\ r.k = "Condition"
          /\ r.c \in NewInteger
          /\ integer_expressions[r.c].k = "RealComparison"
          /\ integer_expressions[r.c].a = f
          /\ integer_expressions[r.c].b \in NewReal
          /\ real_expressions[integer_expressions[r.c].b].v = 0
          /\ real_expressions[r.a].k = "Negate"
          /\ real_expressions[r.a].a = r.b
          /\ real_expressions[r.b].v = 1

(***************************************************************************)
(* C22                                                                     *)
(***************************************************************************)
\* the last call differentiates a min or a max, real or integer
RootIsMinMax ==
    /\ Returned
    /\ Numeric
    /\ LET n == NodeAt(last.pre, last.expr)
       IN IF last.expr.t = "Real"
          THEN n.k = "BuiltInFunctionCall2p" /\ n.op \in {"Min", "Max"}
          ELSE n.k \in {"Min", "Max"}

RootIsMax ==
    LET n == NodeAt(last.pre, last.expr)
    IN IF last.expr.t = "Real" THEN n.op = "Max" ELSE n.k = "Max"

\* the state in which a min or max rule differentiates its arguments: the
\* comparison b < a for max(a, b), a < b for min(a, b), is appended to the
\* integer arena
MinMaxCompared ==
    LET n == NodeAt(last.pre, last.expr)
        kind == IF last.expr.t = "Real" THEN "RealComparison" ELSE "IntegerComparison"
    IN [Started EXCEPT
            !.ie = Append(@, IF RootIsMax THEN Comparison(kind, n.b, n.a)
                             ELSE Comparison(kind, n.a, n.b))]

\* C22: max(a, b) is differentiated as if (b < a) a else b and min(a, b) as
\* if (a < b) a else b: the result is Condition(cmp, D(a) or 0.0, D(b) or 0.0),
\* cmp a less-than comparison over the input ids that the rule appends (a
\* real comparison for a real min or max, an integer one for an integer min
\* or max), and None when D(a) and D(b) are both None
C22_MinMaxRule ==
    RootIsMinMax =>
        LET n == NodeAt(last.pre, last.expr)
            cmp == Len(last.pre.ie) + 1
            da == BranchDerivative(MinMaxCompared, n.a)
            db == BranchDerivative(da.st, n.b)
            base == Len(db.st.re)
        IN IF da.id # None /\ db.id # None
           THEN Leaves(db, <<Condition(cmp, da.id, db.id)>>, base + 1)
           ELSE IF da.id # None
           THEN Leaves(db, <<Literal(0), Condition(cmp, da.id, base + 1)>>, base + 2)
           ELSE IF db.id # None
           THEN Leaves(db, <<Literal(0), Condition(cmp, base + 1, db.id)>>, base + 2)
           ELSE Leaves(db, <<>>, None)

\* max(p, v) by p, p and v real: Condition(v < p, D(p), D(v))
C22_Witness ==
    /\ RootIsMinMax
    /\ RootIsMax
    /\ last.expr.t = "Real"
    /\ LET n == NodeAt(last.pre, last.expr)
           r == real_expressions[last.id]
       IN /\ n.a # n.b
          /\ r.k = "Condition"
          /\ r.c \in NewInteger
          /\ integer_expressions[r.c].k = "RealComparison"
          /\ integer_expressions[r.c].a = n.b
          /\ integer_expressions[r.c].b = n.a
          /\ real_expressions[r.a].v = 1
          /\ real_expressions[r.b].k = "VariableReference"


(***************************************************************************)
(* C23                                                                     *)
(***************************************************************************)
\* the last call differentiates floor(f) or ceil(f)
RootIsRounding ==
    /\ Returned
    /\ last.expr.t = "Real"
    /\ NodeAt(last.pre, last.expr).k = "BuiltInFunctionCall1p"
    /\ NodeAt(last.pre, last.expr).op \in {"Floor", "Ceil"}

\* the lints the last call dispatched
NewLints == SubSeq(lints, Len(last.pre.lints) + 1, Len(lints))

\* C23: differentiating floor(f) or ceil(f) dispatches exactly one
\* RoundingDerivativeNotFullyDefined lint with the span of the floor or ceil
\* node, adds no error to the sink, appends no node and does not traverse f
\* (nothing f would emit or append is there), and yields None: the entry
\* point returns a new literal 0.0
C23_RoundingLint ==
    RootIsRounding =>
        /\ NewLints = <<[lint |-> "RoundingDerivativeNotFullyDefined",
                         sp |-> NodeAt(last.pre, last.expr).sp,
                         expr |-> last.expr]>>
        /\ NewErrors = <<>>
        /\ LeavesNone
        /\ derivatives = last.pre.dv

\* floor(p mod 3) or ceil(p mod 3) by p: one lint, and no Modulus error
\* for the argument; floor(p) by p: the literal 0.0 and not the 1.0 of D(p)
C23_Witness ==
    /\ RootIsRounding
    /\ NodeAt(last.pre, last.expr).sp # DUMMY_SP
    /\ IsUndefinedOp("Real", last.pre.re[NodeAt(last.pre, last.expr).a])
    /\ Len(NewLints) = 1
    /\ NewLints[1].sp = NodeAt(last.pre, last.expr).sp
    /\ errors = last.pre.errors
    /\ real_expressions[last.id].k = "Literal"
    /\ real_expressions[last.id].v = 0


(***************************************************************************)
(* C24                                                                     *)
(***************************************************************************)
\* the last call differentiates an operator without a derivative
RootIsUndefined ==
    /\ Returned
    /\ Numeric
    /\ IsUndefinedOp(last.expr.t, NodeAt(last.pre, last.expr))

\* the sink received the one error DerivativeNotDefined(reason, span of
\* the expression of the last call), and the call yielded None
UndefinedWith(reason) ==
    /\ NewErrors = <<[err |-> "DerivativeNotDefined", reason |-> reason,
                      sp |-> NodeAt(last.pre, last.expr).sp]>>
    /\ real_expressions = Append(last.pre.re, Synthesized(Literal(0), last.expr))
    /\ integer_expressions = last.pre.ie
    /\ last.id = Len(real_expressions)

\* C24: an operator without a derivative yields None (through the entry
\* point a literal 0.0) and one error with the span of the operator's own
\* node, whose reason is Modulus for real and integer mod, BitWiseOp for
\* xor, nxor, and, or and unary bit-neg, LogicOp for logic-and, logic-or
\* and unary logic-neg, Comparison for the integer, real and string
\* comparisons
C24_ReasonsAndSpans ==
    RootIsUndefined =>
        LET n == NodeAt(last.pre, last.expr)
        IN /\ n.k = "BinaryOperator" /\ n.op = "Modulus" => UndefinedWith("Modulus")
           /\ n.k = "BinaryOperator" /\ n.op \in {"Xor", "NXor", "And", "Or"}
                => UndefinedWith("BitWiseOp")
           /\ n.k = "UnaryOperator" /\ n.op = "BitNegate" => UndefinedWith("BitWiseOp")
           /\ n.k = "BinaryOperator" /\ n.op \in {"LogicAnd", "LogicOr"}
                => UndefinedWith("LogicOp")
           /\ n.k = "UnaryOperator" /\ n.op = "LogicNegate" => UndefinedWith("LogicOp")
           /\ n.k \in {"IntegerComparison", "RealComparison", "StringEq", "StringNEq"}
                => UndefinedWith("Comparison")

\* p mod 3.0 by p: the sink holds DerivativeNotDefined(Modulus, span of the
\* mod node) and the result is the literal 0.0
C24_Witness ==
    /\ RootIsUndefined
    /\ last.expr.t = "Real"
    /\ NodeAt(last.pre, last.expr).op = "Modulus"
    /\ NodeAt(last.pre, last.expr).sp # DUMMY_SP
    /\ Len(NewErrors) = 1
    /\ NewErrors[1].reason = "Modulus"
    /\ NewErrors[1].sp = NodeAt(last.pre, last.expr).sp
    /\ real_expressions[last.id].k = "Literal"
    /\ real_expressions[last.id].v = 0


(***************************************************************************)
(* C25                                                                     *)
(***************************************************************************)
\* the last call differentiates an integer product, quotient, power or shift
RootIsIntegerArithmetic ==
    /\ Returned
    /\ last.expr.t = "Integer"
    /\ NodeAt(last.pre, last.expr).k = "BinaryOperator"
    /\ NodeAt(last.pre, last.expr).op
        \in {"Multiply", "Divide", "Exponent", "ShiftLeft", "ShiftRight"}

\* the pushes of the rule of the differentiated expression itself
RootPushes == PushesAt(last.expr)

\* C25: the result of differentiating an integer expression is the id of a
\* real node; every node the mul, div, pow and shift rules append is a real
\* node, each of its operands is the id of a real node of this call (a
\* derivative, a constant or a conversion), and the integer operands a, b
\* and the integer node itself occur only as the argument of an appended
\* integer-conversion node
C25_IntegerPromotion ==
    /\ Returned /\ last.expr.t = "Integer" => last.id \in NewReal
    /\ RootIsIntegerArithmetic =>
        LET n == NodeAt(last.pre, last.expr)
        IN \A i \in RootPushes :
            /\ last.log[i].t = "Real"
            /\ IF Pushed(i).k = "IntegerConversion"
               THEN /\ Pushed(i).a \in {n.a, n.b, last.expr.id}
                    /\ Pushed(i).a \in 1..Len(last.pre.ie)
               ELSE \A o \in OperandsOf("Real", Pushed(i)) :
                        /\ o.t = "Real"
                        /\ o.id \in NewReal
                        /\ o.id < last.log[i].id

\* 2 * n by the time-independent unknown of n: Conversion(2) * D(n), the
\* literal 2 entering the product through a new integer-conversion node
C25_Witness ==
    /\ RootIsIntegerArithmetic
    /\ LET n == NodeAt(last.pre, last.expr)
           r == real_expressions[last.id]
       IN /\ n.op = "Multiply"
          /\ n.a # n.b
          /\ r.k = "BinaryOperator"
          /\ r.op = "Multiply"
          /\ r.a \in NewReal
          /\ real_expressions[r.a].k = "IntegerConversion"
          /\ real_expressions[r.a].a = n.a
          /\ r.b \in NewReal
          /\ \E i \in RootPushes : Pushed(i).k = "IntegerConversion" /\ Pushed(i).a = n.b


(***************************************************************************)
(* C26                                                                     *)
(***************************************************************************)
\* the last call differentiates a sqrt, exp, tan, tanh, real pow or hypot
RootReusesItself ==
    /\ Returned
    /\ last.expr.t = "Real"
    /\ LET n == NodeAt(last.pre, last.expr)
       IN \/ n.k = "BuiltInFunctionCall1p" /\ n.op \in {"Sqrt", "Exp", "Tan", "TanH"}
          \/ n.k = "BuiltInFunctionCall2p" /\ n.op \in {"Pow", "Hypot"}
          \/ n.k = "BinaryOperator" /\ n.op = "Exponent"

\* the nodes a one-argument rule appends after the derivative d of its
\* argument, the original function value being the node `original`
ReusingRule(call, d, base, original) ==
    CASE call = "Sqrt" -> <<Literal(2), BinaryOperator(base + 1, "Multiply", 0, original),
                            BinaryOperator(d, "Divide", 0, base + 2)>>
      [] call = "Exp" -> <<BinaryOperator(d, "Multiply", 0, original)>>
      [] call = "Tan" -> <<BinaryOperator(original, "Multiply", 0, original), Literal(1),
                           BinaryOperator(base + 2, "Sum", 0, base + 1),
                           BinaryOperator(d, "Multiply", 0, base + 3)>>
      [] call = "TanH" -> <<Literal(1), BinaryOperator(original, "Multiply", 0, original),
                            BinaryOperator(base + 1, "Subtract", 0, base + 2),
                            BinaryOperator(d, "Multiply", 0, base + 3)>>

\* C26: the derivatives of sqrt, exp, tan and tanh are f'/(2*e), f'*e,
\* f'*(1 + e*e) and f'*(1 - e*e), those of real pow and hypot a product
\* with e and a quotient by e, where e is the id of the differentiated
\* node itself; no appended node has the variant and the operands of the
\* differentiated node
C26_ReuseOfOriginal ==
    RootReusesItself =>
        LET n == NodeAt(last.pre, last.expr)
            e == last.expr.id
            d == VisitRealExpr(Started, e)
            inner == VisitRealExpr(Started, n.a)
        IN /\ \A i \in NewReal :
                LET new == real_expressions[i]
                IN ~(new.k = n.k /\ new.op = n.op /\ new.a = n.a /\ new.b = n.b)
           /\ n.k = "BuiltInFunctionCall1p" =>
                IF inner.id = None THEN Leaves(inner, <<>>, None)
                ELSE Leaves(inner, ReusingRule(n.op, inner.id, Len(inner.st.re), e),
                            Len(inner.st.re) + Len(ReusingRule(n.op, inner.id, 0, e)))
           /\ n.k # "BuiltInFunctionCall1p" /\ d.id # None =>
                /\ real_expressions[last.id].k = "BinaryOperator"
                /\ real_expressions[last.id].op = IF n.op = "Hypot" THEN "Divide" ELSE "Multiply"
                /\ real_expressions[last.id].a \in NewReal
                /\ real_expressions[last.id].b = e

\* exp(p) by p: D(p) * e, e the exp node of the input
C26_Witness ==
    /\ RootReusesItself
    /\ NodeAt(last.pre, last.expr).op = "Exp"
    /\ real_expressions[last.id].op = "Multiply"
    /\ real_expressions[last.id].b = last.expr.id
    /\ real_expressions[last.id].a \in NewReal
    /\ real_expressions[real_expressions[last.id].a].v = 1


(***************************************************************************)
(* C27                                                                     *)
(***************************************************************************)
\* the nodes the traversal from e arrives at when nothing stops it: e and,
\* through the operands its rule differentiates, theirs
RECURSIVE Arrivals(_, _)
Arrivals(m, e) ==
    LET tr == TraversedOf(e.t, NodeAt(m, e))
    IN {e} \cup UNION {Arrivals(m, tr[i]) : i \in 1..Len(tr)}

\* the port and net references among a set of nodes of m
PortsAndNets(m, nodes) ==
    {e \in nodes : e.t = "Integer" /\ m.ie[e.id].k \in {"PortReference", "NetReference"}}

\* C27: a call whose traversal arrives at a port or net reference stops
\* with the internal error of an unimplemented rule and returns no
\* derivative; a port or net reference that is only in the condition of a
\* conditional or below mod, a bitwise or logic operator or a comparison
\* is not arrived at, and the call returns a derivative
C27_PortNetFatal ==
    Called /\ Numeric =>
        LET reached == PortsAndNets(last.pre, Arrivals(last.pre, last.expr))
            present == PortsAndNets(last.pre, Reachable(last.pre, last.expr))
        IN /\ reached # {} =>
                /\ aborted = "not implemented: Ditigal"
                /\ last.id = None
           /\ present # {} /\ reached = {} =>
                /\ aborted = ""
                /\ last.id \in NewReal

\* n * net by a parameter: n is differentiated, then the net reference
\* stops the call
C27_Witness ==
    /\ Called
    /\ last.expr.t = "Integer"
    /\ NodeAt(last.pre, last.expr).k = "BinaryOperator"
    /\ NodeAt(last.pre, last.expr).op = "Multiply"
    /\ last.pre.ie[NodeAt(last.pre, last.expr).b].k = "NetReference"
    /\ aborted # ""
    /\ last.id = None


(***************************************************************************)
(* C28                                                                     *)
(***************************************************************************)
\* the differentiator yields None for the node c
YieldsNone(c) ==
    IF c.t = "Real" THEN VisitRealExpr(Started, c.id).id = None
    ELSE VisitIntegerExpr(Started, c.id).id = None

\* a pushed node as its arena, its variant and its first operand
Trace(t, k, a) == [t |-> t, k |-> k, a |-> a]

\* what the last call pushed while its traversal was at the node c
TraceAt(c) ==
    LET at == SelectSeq(last.log, LAMBDA x : x.cur = c)
    IN [i \in 1..Len(at) |-> Trace(at[i].t, NodeAt(Now, at[i]).k, NodeAt(Now, at[i]).a)]

\* the nodes a rule appends before it knows whether its arguments have a
\* derivative: the literal zero and the comparison of abs, the comparison
\* of min and max, the conversions of the integer product, quotient and power
Operands(c) ==
    LET n == NodeAt(last.pre, c)
    IN IF c.t = "Real" THEN
            CASE n.k = "BuiltInFunctionCall1p" /\ n.op = "Abs" ->
                    <<Trace("Real", "Literal", 0), Trace("Integer", "RealComparison", n.a)>>
              [] n.k = "BuiltInFunctionCall2p" /\ n.op = "Min" ->
                    <<Trace("Integer", "RealComparison", n.a)>>
              [] n.k = "BuiltInFunctionCall2p" /\ n.op = "Max" ->
                    <<Trace("Integer", "RealComparison", n.b)>>
              [] OTHER -> <<>>
       ELSE CASE n.k = "Abs" ->
                    <<Trace("Integer", "Literal", 0),
                      Trace("Integer", "IntegerComparison", n.a)>>
              [] n.k = "Min" -> <<Trace("Integer", "IntegerComparison", n.a)>>
              [] n.k = "Max" -> <<Trace("Integer", "IntegerComparison", n.b)>>
              [] n.k = "BinaryOperator" /\ n.op \in {"Multiply", "Divide"} ->
                    <<Trace("Real", "IntegerConversion", n.a),
                      Trace("Real", "IntegerConversion", n.b)>>
              [] n.k = "BinaryOperator" /\ n.op = "Exponent" ->
                    <<Trace("Real", "IntegerConversion", n.a),
                      Trace("Real", "IntegerConversion", n.b),
                      Trace("Real", "IntegerConversion", c.id)>>
              [] OTHER -> <<>>

RECURSIVE Repeated(_, _)
Repeated(s, times) == IF times = 0 THEN <<>> ELSE s \o Repeated(s, times - 1)

\* C28 as stated: when the differentiator yields None for the expression
\* it has appended no node to the real arena and none to the integer
\* arena; the arenas hold what they held and the literal 0.0 of the entry
\* point
C28_NoTrace ==
    Returned /\ Numeric /\ YieldsNone(last.expr) =>
        /\ real_expressions = Append(last.pre.re, Synthesized(Literal(0), last.expr))
        /\ integer_expressions = last.pre.ie

\* C28 amended: when the differentiator yields None for a sub-expression,
\* the nodes it has appended while processing it are the operands its rule
\* builds before it differentiates or combines the arguments: the literal
\* zero and the comparison of abs, the comparison of min and max, the two
\* integer-conversion nodes of the integer mul and div and the three of
\* the integer pow, once for every arrival at the node; every other rule,
\* the shifts included, has appended no node
C28_OnlyEagerOperands ==
    Returned /\ Numeric =>
        \A c \in Arrivals(last.pre, last.expr) :
            YieldsNone(c) =>
                TraceAt(c) = Repeated(Operands(c), VisitsOf(last.pre, last.expr, c))
                             \o (IF c = last.expr THEN <<Trace("Real", "Literal", 0)>>
                                 ELSE <<>>)

\* abs(3.0) by p: no derivative, and a literal 0.0 and the comparison
\* 3.0 < 0.0 are left in the arenas before the literal of the entry point
C28_Witness ==
    /\ Returned
    /\ last.expr.t = "Real"
    /\ NodeAt(last.pre, last.expr).op = "Abs"
    /\ YieldsNone(last.expr)
    /\ Len(real_expressions) = Len(last.pre.re) + 2
    /\ Len(integer_expressions) = Len(last.pre.ie) + 1
    /\ integer_expressions[Len(integer_expressions)].k = "RealComparison"
    /\ integer_expressions[Len(integer_expressions)].b = Len(last.pre.re) + 1
    /\ last.id = Len(last.pre.re) + 2


(***************************************************************************)
(* C29                                                                     *)
(***************************************************************************)
\* what the differentiator yields for the node c
Derivative(c) ==
    IF c.t = "Real" THEN VisitRealExpr(Started, c.id) ELSE VisitIntegerExpr(Started, c.id)

\* C29: the id returned by partial_derivative, and every id the real or
\* the integer differentiator yields as Some for a node of the traversal,
\* is the index of a node appended during the call, past the nodes the real
\* arena held before it; a node the arena held is an operand of new nodes
\* at most
C29_NeverAliasesInput ==
    Returned =>
        /\ last.id \in NewReal
        /\ \E i \in 1..Len(last.log) : last.log[i].t = "Real" /\ last.log[i].id = last.id
        /\ Numeric =>
            \A c \in Arrivals(last.pre, last.expr) :
                Derivative(c).id # None =>
                    /\ Derivative(c).id > Len(last.pre.re)
                    /\ Derivative(c).id <= Len(Derivative(c).st.re)

\* p by p a second time: the call returns a second literal 1.0, not the
\* one the first call appended
C29_Witness ==
    /\ Returned
    /\ calls = 2
    /\ last.expr.t = "Real"
    /\ NodeAt(last.pre, last.expr).k = "ParameterReference"
    /\ last.by = UParameter(NodeAt(last.pre, last.expr).v)
    /\ last.id = Len(last.pre.re) + 1
    /\ real_expressions[last.id].v = 1
    /\ last.pre.re[Len(last.pre.re)].k = "Literal"
    /\ last.pre.re[Len(last.pre.re)].v = 1


(***************************************************************************)
(* C30                                                                     *)
(***************************************************************************)
\* what the differentiator yields for the node c when the rule of the node
\* `caller` asks for it
DerivativeFor(caller, c) ==
    IF c.t = "Real" THEN VisitRealExpr([Started EXCEPT !.cur = caller], c.id)
    ELSE VisitIntegerExpr([Started EXCEPT !.cur = caller], c.id)

\* the nodes the rule of the node `caller` visits; the entry point visits
\* the differentiated expression with the cursor already at it
VisitedFrom(caller) ==
    LET tr == TraversedOf(caller.t, NodeAt(last.pre, caller))
    IN {tr[i] : i \in 1..Len(tr)} \cup (IF caller = last.expr THEN {last.expr} ELSE {})

\* C30: when visit_real_expr or visit_integer_expr returns, with Some or
\* with None, through a conversion or a cast or not, the cursor of the
\* caller is what it was before the call and the unknown is the caller's;
\* so every node is appended while the cursor is at a node of the
\* traversal, what the entry point appends for None is appended at the
\* differentiated expression, and the derivative variables a delegated
\* traversal allocates are those of the caller's unknown
C30_CursorAndUnknown ==
    Returned /\ Numeric =>
        /\ \A caller \in Arrivals(last.pre, last.expr) :
                \A c \in VisitedFrom(caller) :
                    LET d == DerivativeFor(caller, c)
                    IN d.st.cur = caller /\ d.st.unknown = last.by
        /\ \A i \in 1..Len(last.log) : last.log[i].cur \in Arrivals(last.pre, last.expr)
        /\ YieldsNone(last.expr) => last.log[Len(last.log)].cur = last.expr
        /\ \A j \in (Len(last.pre.dv) + 1)..Len(derivatives) : derivatives[j].by = last.by

\* exp(n) with the integer n converted, by the unknown of a parameter: the
\* derivative variable of n is referenced with the cursor at n, then the
\* product with the exp node is appended with the cursor back at that node
C30_Witness ==
    /\ Returned
    /\ last.expr.t = "Real"
    /\ NodeAt(last.pre, last.expr).op = "Exp"
    /\ last.pre.re[NodeAt(last.pre, last.expr).a].k = "IntegerConversion"
    /\ Len(last.log) = 2
    /\ last.log[1].cur.t = "Integer"
    /\ last.log[2].cur = last.expr
    /\ Len(derivatives) = Len(last.pre.dv) + 1
    /\ derivatives[Len(derivatives)].by = last.by

====
